---------------------------- MODULE Spec2Model ----------------------------
(***************************************************************************)
(* sshpass-rs: the pty supervisor (src/src/pty.rs) and its stream matcher  *)
(* (src/src/matcher.rs) as a state machine.                                *)
(*                                                                         *)
(* Bytes are their numeric values (0..255).  Threads are modelled by a     *)
(* program counter each: the child-out pump (pcOut), the user-in pump      *)
(* (pcIn), the signal thread (pcSig) and the supervisor (pcSup).  The two  *)
(* mutexes of pty.rs are the variables writerLock and masterLock, acquired *)
(* and released in separate steps.  No thread panics while it holds one of *)
(* them (the one panic modelled is outside any lock), so lock() never      *)
(* returns a poisoned guard and the Err arm of `if let Ok(..)` is not      *)
(* taken.  Write errors on the pty and on stdout are swallowed by the code *)
(* (`let _ =`): ptyLog and stdout record what the pumps hand to write_all. *)
(*                                                                         *)
(* Spec is the whole supervisor from child.wait() on, with both pumps.     *)
(* SpecPump is the child-out pump alone, over a richer set of chunks: the  *)
(* runs in which standard input delivers nothing and the child has not     *)
(* exited.  SpecRun is run() from its first line to process::exit, with    *)
(* the fallible setup calls, the raw-mode guard and a child-out pump that  *)
(* may panic.  SpecSig is the supervisor from child.wait() on with the     *)
(* signal thread; SpecSigFair adds weak fairness of the steps of sshpass's *)
(* own threads.  SpecMatcher is a Matcher by itself over a two-letter      *)
(* alphabet, SpecReal the three matchers of the pump fed pieces of their   *)
(* pattern.  SpecMain is main from resolve_password (src/src/password.rs)  *)
(* to the spawn of the child.  SpecWire is the three writers of the master *)
(* with write_all taken apart into its write calls.  SpecFair is Spec with *)
(* weak fairness of the steps of sshpass's own threads, SpecHangup adds    *)
(* that the child exits once its pty is closed.  SpecLocks is every user   *)
(* of the two Mutexes together, with that fairness.                        *)
(*                                                                         *)
(* The terminal attributes are a name ("cooked", "noecho", "raw");         *)
(* tcsetattr is taken to succeed.  A signal exists for the model when      *)
(* signals.forever() yields it.  The diagnostics on standard error are not *)
(* modelled, except as the place where the child-out pump can panic.       *)
(***************************************************************************)
EXTENDS Integers, Sequences, FiniteSets, TLC

(***************************************************************************)
(* Program constants                                                       *)
(***************************************************************************)
RETURN_INCORRECT_PASSWORD == 5
RETURN_HOST_KEY_UNKNOWN == 6
RETURN_HOST_KEY_CHANGED == 7

\* b'\n'
NL == 10

\* A u32 is its two 16-bit halves, [hi, lo]: the value is hi * 65536 + lo.
\* i32::try_from(u32) succeeds when the top bit is clear, i.e. hi < 2^15.
I32_HI_LIMIT == 32768
HALF_WORD == 65536

\* the fallback of unwrap_or(255) and of a missing child status
EXIT_FALLBACK == 255
EXIT_RUNTIME_ERROR == 3

\* "assword:"  (DEFAULT_PROMPT)
DEFAULT_PROMPT == <<97, 115, 115, 119, 111, 114, 100, 58>>

\* "The authenticity of host "
HK_PATTERN ==
    <<84, 104, 101, 32, 97, 117, 116, 104, 101, 110, 116, 105, 99, 105, 116,
      121, 32, 111, 102, 32, 104, 111, 115, 116, 32>>

\* "differs from the key for the IP address"
HKC_PATTERN ==
    <<100, 105, 102, 102, 101, 114, 115, 32, 102, 114, 111, 109, 32, 116, 104,
      101, 32, 107, 101, 121, 32, 102, 111, 114, 32, 116, 104, 101, 32, 73,
      80, 32, 97, 100, 100, 114, 101, 115, 115>>

(***************************************************************************)
(* Bounds of the model                                                     *)
(***************************************************************************)
\* chunks the child-out pump reads in a run of SpecPump
MaxReads == 3
\* chunks the child-out pump reads in a run of Spec
MaxReadsFull == 2
\* chunks the user-in pump reads from standard input in a run of Spec
MaxStdin == 2
\* reads of the master that return data, in the runs from the first line of run()
MaxReadsRun == 1
\* signals the iterator yields, reads of the master that return data, in a run of SpecSig
MaxSignals == 2
MaxReadsSig == 1
\* a Matcher by itself: the length of its pattern, of a chunk fed to it, and
\* the calls of feed and of reset
MaxPattern == 3
MaxChunk == 2
MaxFeeds == 2
MaxResets == 2
\* the length of what a password file, fd or standard input holds
MaxContent == 3
\* the reads of the master when the single write calls are followed
MaxReadsWire == 2
\* the reads of standard input, and the signals, when all users of the locks run
MaxStdinLocks == 1
MaxSignalsLocks == 1

(***************************************************************************)
(* The inputs explored                                                     *)
(***************************************************************************)
\* prompt patterns (-P): the default and the empty pattern
Prompts == {DEFAULT_PROMPT, <<>>}

\* passwords: "pw"
Passwords == {<<112, 119>>}

\* "hi"
\* the bytes a Matcher by itself is constructed from and fed: "a", "b"
Alphabet == {97, 98}

PlainText == <<104, 105>>

Half(s) == Len(s) \div 2

\* What one read of the master may return when only the pump runs: the
\* prompt whole and split in two, a newline alone and in front of the prompt,
\* the echo of the injected line, both host-key messages whole and the first
\* split in two, chunks in which two patterns meet, and plain text.
PumpChunks(prompt, password) ==
    { c \in { prompt,
              SubSeq(prompt, 1, Half(prompt)),
              SubSeq(prompt, Half(prompt) + 1, Len(prompt)),
              <<NL>>,
              <<NL>> \o prompt,
              prompt \o <<NL>> \o PlainText,
              password \o <<NL>>,
              HK_PATTERN,
              SubSeq(HK_PATTERN, 1, Half(HK_PATTERN)),
              SubSeq(HK_PATTERN, Half(HK_PATTERN) + 1, Len(HK_PATTERN)),
              HKC_PATTERN,
              prompt \o HK_PATTERN,
              prompt \o HKC_PATTERN,
              HKC_PATTERN \o HK_PATTERN,
              PlainText } : Len(c) > 0 }

\* What one read of the master may return in the runs of the whole supervisor.
SupChunks(prompt, password) ==
    { c \in { prompt, HK_PATTERN, HKC_PATTERN } : Len(c) > 0 }

\* What one read of standard input may return: Ctrl-C, and "q\n"
StdinChunks == { <<3>>, <<113, 10>> }

\* What it may return in a run of SpecSig: "q\n"
SigStdin == { <<113, 10>> }

U32(h, l) == [hi |-> h, lo |-> l]

\* u32 exit codes of the child: 0, 42, 256, 2^31
ExitCodes == { U32(0, 0), U32(0, 42), U32(0, 256), U32(32768, 0) }

\* child.wait().ok(): None, or Some(status)
ChildStatuses ==
    { [some |-> FALSE, code |-> U32(0, 0)] } \cup { [some |-> TRUE, code |-> c] : c \in ExitCodes }

(***************************************************************************)
(* Sequences                                                               *)
(***************************************************************************)
RECURSIVE Flatten(_)
Flatten(ss) == IF ss = <<>> THEN <<>> ELSE Head(ss) \o Flatten(Tail(ss))

\* data.iter().position(|&b| b == byte), 1-based; 0 when there is none
Position(d, byte) ==
    IF \E i \in 1..Len(d) : d[i] = byte
    THEN CHOOSE i \in 1..Len(d) : d[i] = byte /\ \A j \in 1..(i - 1) : d[j] # byte
    ELSE 0

(***************************************************************************)
(* matcher.rs                                                              *)
(***************************************************************************)
\* a slip: after a mismatch the byte is not compared with pattern[0]
FeedByte_NoRestart(pattern, state, byte) ==
    IF state < Len(pattern) /\ pattern[state + 1] = byte THEN state + 1 ELSE 0

\* one iteration of the loop of Matcher::feed: the state after `byte`
FeedByte(pattern, state, byte) ==
    IF state < Len(pattern) /\ pattern[state + 1] = byte
    THEN state + 1
    ELSE IF Len(pattern) > 0 /\ pattern[1] = byte THEN 1 ELSE 0

RECURSIVE FeedFrom(_, _, _, _)
FeedFrom(pattern, state, d, i) ==
    IF i > Len(d)
    THEN [fired |-> FALSE, state |-> state, used |-> Len(d)]
    ELSE LET s == FeedByte(pattern, state, d[i])
         IN IF s = Len(pattern)
            THEN [fired |-> TRUE, state |-> s, used |-> i]
            ELSE FeedFrom(pattern, s, d, i + 1)

\* a slip: the state does not survive the call
Feed_PerCall(pattern, state, d) ==
    IF Len(pattern) = 0
    THEN [fired |-> FALSE, state |-> state, used |-> 0]
    ELSE FeedFrom(pattern, 0, d, 1)

\* a slip: the test for an empty pattern is missing
Feed_NoEmptyCheck(pattern, state, d) == FeedFrom(pattern, state, d, 1)

\* Matcher::feed: the result, the state it leaves, and the bytes it consumed
Feed(pattern, state, d) ==
    IF Len(pattern) = 0
    THEN [fired |-> FALSE, state |-> state, used |-> 0]
    ELSE FeedFrom(pattern, state, d, 1)

\* Matcher::new
New(pattern) == [pattern |-> pattern, state |-> 0]

\* a slip: reset returns without touching the state
Reset_Noop(state) == state

\* Matcher::reset: the state it leaves
Reset(state) == 0

(***************************************************************************)
(* State                                                                   *)
(***************************************************************************)
VARIABLES
    prompt, password, verbose,  \* RunConfig
    writer, master,             \* the Option slots of SharedWriter, SharedMaster
    writerLock, masterLock,     \* the holder of each Mutex, or "free"
    exit_code,                  \* the AtomicI32
    ptyLog,                     \* the writes that reached the master writer
    pcOut, data,                \* child-out pump: position, buf[..n]
    pw_matcher, hk_matcher, hkc_matcher,
    password_sent, suppress_until_newline,
    stdout,                     \* the bytes written to standard output
    chunks,                     \* history: the chunks read from the master
    fires,                      \* history: times pw_matcher.feed returned true
    matchEnd,                   \* history: stream offset where it first did
    outIdx,                     \* history: the stream offset of each stdout byte
    outEnd,                     \* history: why the child-out pump left its loop
    pcIn, inBuf,                \* user-in pump: position, buf[..n]
    stdinLog,                   \* history: the bytes read from standard input
    stdinReads,                 \* history: reads of standard input that returned data
    inEnd,                      \* history: why the user-in pump left its loop
    pcSup, child_status, result, \* supervisor: position, wait()'s value, run's Ok value
    err,                        \* the PtyError run() returned, or "none"
    exited, exit_status,        \* main: process::exit was called, and with what
    stdin_tty,                  \* isatty(STDIN) != 0 && tcgetattr(STDIN) == 0
    termios,                    \* the attributes of the terminal on standard input
    original,                   \* RawModeGuard.original
    pcSig, sig, size,           \* signal thread: position, the signal, the size queried
    signalsOpen,                \* the signal iterator has not been closed
    sigLog,                     \* history: the signals the iterator yielded
    queries,                    \* history: what get_terminal_size returned to the thread
    resizes,                    \* the sizes the master was resized to
    matcher, fresh,             \* a Matcher by itself, and one constructed at its last reset
    fed,                        \* history: the bytes fed since construction or reset
    hit, last,                  \* history: some feed since then returned true; the last result
    agree,                      \* history: matcher and fresh returned the same since then
    feeds, resets,              \* history: the calls of feed, and of reset
    atReset,                    \* history: the state the last reset found
    pwSource, content,          \* the PasswordSource, and what it holds
    env, envInit,               \* the variable named by -e: now, and when main started
    childEnv,                   \* that variable in the environment the child was given
    written                     \* the bytes of its buffer each pump's write_all has written

confVars == <<prompt, password, verbose>>
sharedVars == <<writer, master, writerLock, masterLock, exit_code, ptyLog>>
outVars == <<pcOut, data, pw_matcher, hk_matcher, hkc_matcher, password_sent,
             suppress_until_newline, stdout, chunks, fires, matchEnd, outIdx, outEnd>>
inVars == <<pcIn, inBuf, stdinLog, stdinReads, inEnd>>
supVars == <<pcSup, child_status, result>>
mainVars == <<err, exited, exit_status>>
ttyVars == <<stdin_tty, termios, original>>
sigVars == <<pcSig, sig, size, signalsOpen, sigLog, queries, resizes>>
matcherVars == <<matcher, fresh, fed, hit, last, agree, feeds, resets, atReset>>
pwVars == <<pwSource, content, env, envInit, childEnv>>
wireVars == <<written>>
restVars == <<mainVars, ttyVars, sigVars, matcherVars>>
vars == <<confVars, pwVars, wireVars, sharedVars, outVars, inVars, supVars, restVars>>

\* the child's output stream read so far
Stream == Flatten(chunks)

\* an environment variable: unset, or set to a value
Unset == [set |-> FALSE, value |-> <<>>]
SetTo(v) == [set |-> TRUE, value |-> v]

\* the password was given with -p, the variable of -e is not set
PasswordDirect ==
    /\ pwSource = "Direct" /\ content = password
    /\ env = Unset /\ envInit = Unset

\* no write_all is under way
NoneWritten == [out |-> 0, in |-> 0]

\* no Matcher is exercised by itself
MatcherIdle ==
    /\ matcher = New(<<>>) /\ fresh = New(<<>>)
    /\ fed = <<>> /\ hit = FALSE /\ last = FALSE /\ agree = TRUE
    /\ feeds = 0 /\ resets = 0 /\ atReset = 0

\* the state when both pump threads have been spawned and run() reaches wait():
\* standard input is not a terminal, the signal thread waits for a signal
AtWait(prompts, passwords) ==
    /\ prompt \in prompts
    /\ password \in passwords
    /\ PasswordDirect
    /\ childEnv = [spawned |-> TRUE, var |-> Unset]
    /\ written = NoneWritten
    /\ verbose = FALSE
    /\ err = "none" /\ exited = FALSE /\ exit_status = 0
    /\ stdin_tty = FALSE /\ termios = "cooked" /\ original = "None"
    /\ pcSig = "wait" /\ sig = "none" /\ size = "None" /\ signalsOpen = TRUE
    /\ sigLog = <<>> /\ queries = <<>> /\ resizes = <<>>
    /\ writer = "Some" /\ master = "Some"
    /\ writerLock = "free" /\ masterLock = "free"
    /\ exit_code = 0
    /\ ptyLog = <<>>
    /\ pcOut = "read" /\ data = <<>>
    /\ pw_matcher = 0 /\ hk_matcher = 0 /\ hkc_matcher = 0
    /\ password_sent = FALSE /\ suppress_until_newline = FALSE
    /\ stdout = <<>>
    /\ chunks = <<>> /\ fires = 0 /\ matchEnd = 0 /\ outIdx = <<>> /\ outEnd = "running"
    /\ pcIn = "read" /\ inBuf = <<>> /\ stdinLog = <<>> /\ stdinReads = 0
    /\ inEnd = "running"
    /\ pcSup = "wait" /\ child_status = [some |-> FALSE, code |-> U32(0, 0)] /\ result = 0

InitWith(prompts, passwords) == AtWait(prompts, passwords) /\ MatcherIdle

(***************************************************************************)
(* write_to_pty and close_pty                                              *)
(***************************************************************************)
\* a slip: a thread goes on without waiting for the holder of the Mutex
Unlocked_Always(lock) == TRUE

\* Mutex::lock returns once no other thread holds the Mutex
Unlocked(lock) == lock = "free"

\* a slip: write in place of write_all, and the pty takes one byte
WriteToPty_Partial(slot, log, who, bytes) ==
    IF slot = "Some" THEN Append(log, [src |-> who, data |-> SubSeq(bytes, 1, 1)]) ELSE log

\* a slip: the Option is unwrapped without a look at what the slot holds
WriteToPty_Unchecked(slot, log, who, bytes) == Append(log, [src |-> who, data |-> bytes])

\* the body of write_to_pty under the lock: write_all + flush if the slot is Some
WriteToPty(slot, log, who, bytes) ==
    IF slot = "Some" THEN Append(log, [src |-> who, data |-> bytes]) ELSE log

\* a slip: the slot is inspected and left in place
Take_Keep(slot) == slot

\* Option::take
Take(slot) == "None"

(***************************************************************************)
(* Child-out pump                                                          *)
(***************************************************************************)
\* format!("{}\n", password)
Payload(pw) == pw \o <<NL>>

\* a slip: &data[..pos] in place of &data[pos + 1..]
Emit_Prefix(d, suppress) ==
    IF suppress
    THEN LET pos == Position(d, NL)
         IN IF pos > 0
            THEN [suppress |-> FALSE, out |-> SubSeq(d, 1, pos - 1)]
            ELSE [suppress |-> TRUE, out |-> <<>>]
    ELSE [suppress |-> FALSE, out |-> d]

\* step 4: what is written to stdout, and the flag afterwards
Emit(d, suppress) ==
    IF suppress
    THEN LET pos == Position(d, NL)
         IN IF pos > 0
            THEN [suppress |-> FALSE, out |-> SubSeq(d, pos + 1, Len(d))]
            ELSE [suppress |-> TRUE, out |-> <<>>]
    ELSE [suppress |-> FALSE, out |-> d]

\* a slip: the suppression branch is taken before the host-key matchers are fed
HostKeys_SkipWhenSuppressed(d, hk, hkc, suppress) ==
    LET hkR == Feed(HK_PATTERN, hk, d)
        hkcR == Feed(HKC_PATTERN, hkc, d)
        e == Emit(d, suppress)
    IN IF suppress
       THEN [code |-> 0, hk |-> hk, hkc |-> hkc, suppress |-> e.suppress, out |-> e.out]
       ELSE IF hkR.fired
       THEN [code |-> RETURN_HOST_KEY_UNKNOWN, hk |-> hkR.state, hkc |-> hkc,
             suppress |-> suppress, out |-> <<>>]
       ELSE IF hkcR.fired
       THEN [code |-> RETURN_HOST_KEY_CHANGED, hk |-> hkR.state, hkc |-> hkcR.state,
             suppress |-> suppress, out |-> <<>>]
       ELSE [code |-> 0, hk |-> hkR.state, hkc |-> hkcR.state,
             suppress |-> e.suppress, out |-> e.out]

\* a slip: the tests of steps 2 and 3 are exchanged
HostKeys_ChangedFirst(d, hk, hkc, suppress) ==
    LET hkR == Feed(HK_PATTERN, hk, d)
        hkcR == Feed(HKC_PATTERN, hkc, d)
        e == Emit(d, suppress)
    IN IF hkcR.fired
       THEN [code |-> RETURN_HOST_KEY_CHANGED, hk |-> hk, hkc |-> hkcR.state,
             suppress |-> suppress, out |-> <<>>]
       ELSE IF hkR.fired
       THEN [code |-> RETURN_HOST_KEY_UNKNOWN, hk |-> hkR.state, hkc |-> hkcR.state,
             suppress |-> suppress, out |-> <<>>]
       ELSE [code |-> 0, hk |-> hkR.state, hkc |-> hkcR.state,
             suppress |-> e.suppress, out |-> e.out]

\* a slip: the chunk that fires a host-key matcher is emitted like any other
HostKeys_EmitOnMatch(d, hk, hkc, suppress) ==
    LET hkR == Feed(HK_PATTERN, hk, d)
        hkcR == Feed(HKC_PATTERN, hkc, d)
        e == Emit(d, suppress)
    IN IF hkR.fired
       THEN [code |-> RETURN_HOST_KEY_UNKNOWN, hk |-> hkR.state, hkc |-> hkc,
             suppress |-> e.suppress, out |-> e.out]
       ELSE IF hkcR.fired
       THEN [code |-> RETURN_HOST_KEY_CHANGED, hk |-> hkR.state, hkc |-> hkcR.state,
             suppress |-> e.suppress, out |-> e.out]
       ELSE [code |-> 0, hk |-> hkR.state, hkc |-> hkcR.state,
             suppress |-> e.suppress, out |-> e.out]

\* a slip: the third test feeds hk_matcher again, hkc_matcher is never fed
HostKeys_UnknownTwice(d, hk, hkc, suppress) ==
    LET hkR == Feed(HK_PATTERN, hk, d)
        e == Emit(d, suppress)
    IN IF hkR.fired
       THEN [code |-> RETURN_HOST_KEY_UNKNOWN, hk |-> hkR.state, hkc |-> hkc,
             suppress |-> suppress, out |-> <<>>]
       ELSE [code |-> 0, hk |-> hkR.state, hkc |-> hkc,
             suppress |-> e.suppress, out |-> e.out]

\* steps 2 to 4 on chunk d: the host-key matchers, then the emission
HostKeys(d, hk, hkc, suppress) ==
    LET hkR == Feed(HK_PATTERN, hk, d)
        hkcR == Feed(HKC_PATTERN, hkc, d)
        e == Emit(d, suppress)
    IN IF hkR.fired
       THEN [code |-> RETURN_HOST_KEY_UNKNOWN, hk |-> hkR.state, hkc |-> hkc,
             suppress |-> suppress, out |-> <<>>]
       ELSE IF hkcR.fired
       THEN [code |-> RETURN_HOST_KEY_CHANGED, hk |-> hkR.state, hkc |-> hkcR.state,
             suppress |-> suppress, out |-> <<>>]
       ELSE [code |-> 0, hk |-> hkR.state, hkc |-> hkcR.state,
             suppress |-> e.suppress, out |-> e.out]

\* the rest of the loop body after step 1, on chunk d ending at stream offset end
AfterPrompt(d, suppress, end) ==
    LET o == HostKeys(d, hk_matcher, hkc_matcher, suppress)
    IN /\ hk_matcher' = o.hk
       /\ hkc_matcher' = o.hkc
       /\ suppress_until_newline' = o.suppress
       /\ stdout' = stdout \o o.out
       /\ outIdx' = outIdx \o [i \in 1..Len(o.out) |-> end - Len(o.out) + i]
       /\ exit_code' = IF o.code # 0 THEN o.code ELSE exit_code
       /\ pcOut' = IF o.code # 0 THEN "close_w_lock" ELSE "read"

\* a slip: password_sent is not consulted
PromptBranch_AlwaysInject(sent) == "inject"

\* step 1 when the prompt matcher fires: inject, or give up
PromptBranch(sent) == IF ~sent THEN "inject" ELSE "wrong"

\* reader.read returned Ok(n), n > 0, with buf[..n] = d
ChildOutChunk(d) ==
    LET r == Feed(prompt, pw_matcher, d)
    IN /\ pcOut = "read"
       /\ data' = d
       /\ chunks' = Append(chunks, d)
       /\ pw_matcher' = r.state
       /\ fires' = IF r.fired THEN fires + 1 ELSE fires
       /\ matchEnd' = IF r.fired /\ fires = 0 THEN Len(Stream) + r.used ELSE matchEnd
       /\ IF r.fired /\ PromptBranch(password_sent) = "inject"
          THEN /\ pcOut' = "pw_lock"
               /\ UNCHANGED <<hk_matcher, hkc_matcher, suppress_until_newline, stdout,
                              outIdx, exit_code>>
          ELSE IF r.fired
          THEN /\ exit_code' = RETURN_INCORRECT_PASSWORD
               /\ pcOut' = "close_w_lock"
               /\ UNCHANGED <<hk_matcher, hkc_matcher, suppress_until_newline, stdout,
                              outIdx>>
          ELSE AfterPrompt(d, suppress_until_newline, Len(Stream) + Len(d))
       /\ UNCHANGED <<confVars, pwVars, wireVars, restVars, writer, master, writerLock, masterLock, ptyLog,
                      password_sent, outEnd, inVars, supVars>>

ChildOutRead(inputs, max) ==
    /\ Len(chunks) < max
    /\ \E d \in inputs : ChildOutChunk(d)

\* write_to_pty(&writer, payload): writer.lock()
ChildOutLockPayload ==
    /\ pcOut = "pw_lock"
    /\ Unlocked(writerLock)
    /\ writerLock' = "out"
    /\ pcOut' = "pw_write"
    /\ UNCHANGED <<confVars, pwVars, wireVars, restVars, writer, master, masterLock, exit_code, ptyLog, data,
                   pw_matcher, hk_matcher, hkc_matcher, password_sent,
                   suppress_until_newline, stdout, chunks, fires, matchEnd, outIdx,
                   outEnd, inVars, supVars>>

\* the write under the lock, the unlock, and the rest of the loop body
ChildOutWritePayload ==
    /\ pcOut = "pw_write"
    /\ ptyLog' = WriteToPty(writer, ptyLog, "out", Payload(password))
    /\ writerLock' = "free"
    /\ password_sent' = TRUE
    /\ pw_matcher' = Reset(pw_matcher)
    /\ AfterPrompt(data, TRUE, Len(Stream))
    /\ UNCHANGED <<confVars, pwVars, wireVars, restVars, writer, master, masterLock, data, chunks, fires, matchEnd,
                   outEnd, inVars, supVars>>

\* close_pty: writer.lock()
ChildOutCloseLockWriter ==
    /\ pcOut = "close_w_lock"
    /\ Unlocked(writerLock)
    /\ writerLock' = "out"
    /\ pcOut' = "close_w"
    /\ UNCHANGED <<confVars, pwVars, wireVars, restVars, writer, master, masterLock, exit_code, ptyLog, data,
                   pw_matcher, hk_matcher, hkc_matcher, password_sent,
                   suppress_until_newline, stdout, chunks, fires, matchEnd, outIdx,
                   outEnd, inVars, supVars>>

\* a slip: the guard of the writer Mutex lives on while the master is locked
ChildOutCloseWriter_KeepLock ==
    /\ pcOut = "close_w"
    /\ writer' = Take(writer)
    /\ pcOut' = "close_m_lock"
    /\ UNCHANGED <<confVars, pwVars, wireVars, restVars, master, writerLock, masterLock, exit_code,
                   ptyLog, data, pw_matcher, hk_matcher, hkc_matcher, password_sent,
                   suppress_until_newline, stdout, chunks, fires, matchEnd, outIdx,
                   outEnd, inVars, supVars>>

\* close_pty: w.take() and the unlock
ChildOutCloseWriter ==
    /\ pcOut = "close_w"
    /\ writer' = Take(writer)
    /\ writerLock' = "free"
    /\ pcOut' = "close_m_lock"
    /\ UNCHANGED <<confVars, pwVars, wireVars, restVars, master, masterLock, exit_code, ptyLog, data,
                   pw_matcher, hk_matcher, hkc_matcher, password_sent,
                   suppress_until_newline, stdout, chunks, fires, matchEnd, outIdx,
                   outEnd, inVars, supVars>>

\* close_pty: master.lock()
ChildOutCloseLockMaster ==
    /\ pcOut = "close_m_lock"
    /\ Unlocked(masterLock)
    /\ masterLock' = "out"
    /\ pcOut' = "close_m"
    /\ UNCHANGED <<confVars, pwVars, wireVars, restVars, writer, master, writerLock, exit_code, ptyLog, data,
                   pw_matcher, hk_matcher, hkc_matcher, password_sent,
                   suppress_until_newline, stdout, chunks, fires, matchEnd, outIdx,
                   outEnd, inVars, supVars>>

\* close_pty: m.take() and the unlock; then the break
ChildOutCloseMaster ==
    /\ pcOut = "close_m"
    /\ master' = Take(master)
    /\ masterLock' = "free"
    /\ pcOut' = "done"
    /\ outEnd' = "break"
    /\ UNCHANGED <<confVars, pwVars, wireVars, restVars, writer, writerLock, exit_code, ptyLog, data,
                   pw_matcher, hk_matcher, hkc_matcher, password_sent,
                   suppress_until_newline, stdout, chunks, fires, matchEnd, outIdx,
                   inVars, supVars>>

\* reader.read returned Ok(0)
ChildOutEof ==
    /\ pcOut = "read"
    /\ pcOut' = "done"
    /\ outEnd' = "eof"
    /\ UNCHANGED <<confVars, pwVars, wireVars, restVars, sharedVars, data, pw_matcher, hk_matcher, hkc_matcher,
                   password_sent, suppress_until_newline, stdout, chunks, fires,
                   matchEnd, outIdx, inVars, supVars>>

\* reader.read returned Err(_)
ChildOutErr ==
    /\ pcOut = "read"
    /\ pcOut' = "done"
    /\ outEnd' = "err"
    /\ UNCHANGED <<confVars, pwVars, wireVars, restVars, sharedVars, data, pw_matcher, hk_matcher, hkc_matcher,
                   password_sent, suppress_until_newline, stdout, chunks, fires,
                   matchEnd, outIdx, inVars, supVars>>

ChildOutSteps ==
    \/ ChildOutLockPayload
    \/ ChildOutWritePayload
    \/ ChildOutCloseLockWriter
    \/ ChildOutCloseWriter
    \/ ChildOutCloseLockMaster
    \/ ChildOutCloseMaster
    \/ ChildOutEof
    \/ ChildOutErr

(***************************************************************************)
(* The child-out pump alone: the runs in which standard input delivers     *)
(* nothing and the child has not exited yet                                *)
(***************************************************************************)
InitPump == InitWith(Prompts, Passwords)

NextPump ==
    \/ ChildOutRead(PumpChunks(prompt, password), MaxReads)
    \/ ChildOutSteps

SpecPump == InitPump /\ [][NextPump]_vars

(***************************************************************************)
(* User-in pump                                                            *)
(***************************************************************************)
\* stdin.read returned Ok(n), n > 0, with buf[..n] = d
UserInRead(d) ==
    /\ pcIn = "read"
    /\ stdinReads < MaxStdin
    /\ inBuf' = d
    /\ stdinLog' = stdinLog \o d
    /\ stdinReads' = stdinReads + 1
    /\ pcIn' = "lock"
    /\ UNCHANGED <<confVars, pwVars, wireVars, restVars, sharedVars, outVars, inEnd, supVars>>

\* write_to_pty(&writer, &buf[..n]): writer.lock()
UserInLock ==
    /\ pcIn = "lock"
    /\ Unlocked(writerLock)
    /\ writerLock' = "in"
    /\ pcIn' = "write"
    /\ UNCHANGED <<confVars, pwVars, wireVars, restVars, writer, master, masterLock, exit_code, ptyLog, outVars,
                   inBuf, stdinLog, stdinReads, inEnd, supVars>>

\* the write under the lock, and the unlock
UserInWrite ==
    /\ pcIn = "write"
    /\ ptyLog' = WriteToPty(writer, ptyLog, "in", inBuf)
    /\ writerLock' = "free"
    /\ pcIn' = "read"
    /\ UNCHANGED <<confVars, pwVars, wireVars, restVars, writer, master, masterLock, exit_code, outVars,
                   inBuf, stdinLog, stdinReads, inEnd, supVars>>

\* stdin.read returned Ok(0)
UserInEof ==
    /\ pcIn = "read"
    /\ pcIn' = "done"
    /\ inEnd' = "eof"
    /\ UNCHANGED <<confVars, pwVars, wireVars, restVars, sharedVars, outVars, inBuf, stdinLog, stdinReads, supVars>>

\* stdin.read returned Err(_)
UserInErr ==
    /\ pcIn = "read"
    /\ pcIn' = "done"
    /\ inEnd' = "err"
    /\ UNCHANGED <<confVars, pwVars, wireVars, restVars, sharedVars, outVars, inBuf, stdinLog, stdinReads, supVars>>

(***************************************************************************)
(* RawModeGuard                                                            *)
(***************************************************************************)
\* RawModeGuard::enter on a standard input with attributes attrs: the field
\* original, and the attributes afterwards (cfmakeraw, with ISIG set)
RawModeGuardEnter(tty, attrs) ==
    IF tty
    THEN [original |-> attrs, termios |-> "raw"]
    ELSE [original |-> "None", termios |-> attrs]

\* a slip: the guard is forgotten, its drop never runs
RawModeGuardDrop_Forget(orig, attrs) == attrs

\* Drop for RawModeGuard: the attributes afterwards
RawModeGuardDrop(orig, attrs) == IF orig # "None" THEN orig ELSE attrs

(***************************************************************************)
(* Supervisor: run() from child.wait() on                                  *)
(***************************************************************************)
\* status.exit_code().try_into().unwrap_or(255), the target being i32
ExitCodeOf(code) ==
    IF code.hi < I32_HI_LIMIT THEN code.hi * HALF_WORD + code.lo ELSE EXIT_FALLBACK

\* a slip: the child's status is looked at first
FinalCode_ChildFirst(sshpass_code, status) ==
    IF status.some THEN ExitCodeOf(status.code)
    ELSE IF sshpass_code # 0 THEN sshpass_code
    ELSE EXIT_FALLBACK

\* the value run() returns
FinalCode(sshpass_code, status) ==
    IF sshpass_code # 0 THEN sshpass_code
    ELSE IF status.some THEN ExitCodeOf(status.code)
    ELSE EXIT_FALLBACK

\* child.wait().ok() returns
SupWait(st) ==
    /\ pcSup = "wait"
    /\ child_status' = st
    /\ pcSup' = "close_signals"
    /\ UNCHANGED <<confVars, pwVars, wireVars, restVars, sharedVars, outVars, inVars, result>>

\* a slip: the handle of the signal iterator is never closed
SupCloseSignals_Skip ==
    /\ pcSup = "close_signals"
    /\ pcSup' = "join"
    /\ UNCHANGED <<confVars, pwVars, wireVars, sharedVars, outVars, inVars, child_status, result, mainVars,
                   ttyVars, sigVars, matcherVars>>

\* if let Some(handle) = _signal_handle { handle.close() }
SupCloseSignals ==
    /\ pcSup = "close_signals"
    /\ signalsOpen' = FALSE
    /\ pcSup' = "join"
    /\ UNCHANGED <<confVars, pwVars, wireVars, sharedVars, outVars, inVars, child_status, result, mainVars,
                   ttyVars, pcSig, sig, size, sigLog, queries, resizes, matcherVars>>

\* a slip: the user-in pump is joined as well
SupJoin_BothPumps ==
    /\ pcSup = "join"
    /\ pcOut = "done"
    /\ pcIn = "done"
    /\ pcSup' = "load"
    /\ UNCHANGED <<confVars, pwVars, wireVars, restVars, sharedVars, outVars, inVars, child_status, result>>

\* a slip: the pump thread is detached instead of joined
SupJoin_NoJoin ==
    /\ pcSup = "join"
    /\ pcSup' = "load"
    /\ UNCHANGED <<confVars, pwVars, wireVars, restVars, sharedVars, outVars, inVars, child_status, result>>

\* read_handle.join() returns once the child-out pump thread has ended;
\* drop(stdin_handle) detaches the user-in pump
SupJoin ==
    /\ pcSup = "join"
    /\ pcOut = "done"
    /\ pcSup' = "load"
    /\ UNCHANGED <<confVars, pwVars, wireVars, restVars, sharedVars, outVars, inVars, child_status, result>>

\* exit_code.load and the return value; _raw_guard goes out of scope
SupReturn ==
    /\ pcSup = "load"
    /\ result' = FinalCode(exit_code, child_status)
    /\ termios' = RawModeGuardDrop(original, termios)
    /\ pcSup' = "done"
    /\ UNCHANGED <<confVars, pwVars, wireVars, sharedVars, outVars, inVars, child_status, mainVars,
                   stdin_tty, original, sigVars, matcherVars>>

(***************************************************************************)
(* The whole supervisor: both pumps and run()                              *)
(***************************************************************************)
Init == InitWith({DEFAULT_PROMPT}, Passwords)

Next ==
    \/ ChildOutRead(SupChunks(prompt, password), MaxReadsFull)
    \/ ChildOutSteps
    \/ \E d \in StdinChunks : UserInRead(d)
    \/ UserInLock
    \/ UserInWrite
    \/ UserInEof
    \/ UserInErr
    \/ \E st \in ChildStatuses : SupWait(st)
    \/ SupCloseSignals
    \/ SupJoin
    \/ SupReturn

Spec == Init /\ [][Next]_vars

\* every thread of sshpass that can take a step of its own eventually takes
\* one: a lock that is free is taken, a write under the lock returns, the
\* supervisor goes on after wait().  What the reads of the master and of
\* standard input return, and when the child exits, is the environment's.
FairThreads ==
    /\ WF_vars(ChildOutLockPayload \/ ChildOutWritePayload \/ ChildOutCloseLockWriter
                \/ ChildOutCloseWriter \/ ChildOutCloseLockMaster \/ ChildOutCloseMaster)
    /\ WF_vars(UserInLock \/ UserInWrite)
    /\ WF_vars(SupCloseSignals \/ SupJoin \/ SupReturn)

SpecFair == Init /\ [][Next]_vars /\ FairThreads

\* the pump has dropped the writer, the master and its reader
PtyClosed == writer = "None" /\ master = "None" /\ pcOut = "done"

\* a child whose pty has been closed exits, and wait() returns
ChildExitsOnHangup == WF_vars(PtyClosed /\ \E st \in ChildStatuses : SupWait(st))

SpecHangup == Init /\ [][Next]_vars /\ FairThreads /\ ChildExitsOnHangup

(***************************************************************************)
(* The signal thread of setup_unix_signals                                 *)
(***************************************************************************)
Signals == {"SIGWINCH", "SIGTERM", "SIGHUP", "SIGINT", "SIGTSTP"}

\* the sizes the ioctl on standard output may report
Sizes == {"24x80", "43x132"}

\* a slip: both arms write the interrupt byte
SignalByte_AlwaysInterrupt(s) == <<3>>

\* the byte written for SIGINT and for SIGTSTP
SignalByte(s) == IF s = "SIGINT" THEN <<3>> ELSE <<26>>

\* the arm of the match taken for signal s
Dispatch(s) ==
    CASE s = "SIGWINCH" -> "winch_size"
      [] s \in {"SIGINT", "SIGTSTP"} -> "lock"
      [] s \in {"SIGTERM", "SIGHUP"} -> "done"

\* m.resize(size) under the lock, if the slot is Some
Resize(slot, log, sz) == IF slot = "Some" THEN Append(log, sz) ELSE log

\* signals.forever() yields s
SigNext(s) ==
    /\ pcSig = "wait"
    /\ signalsOpen
    /\ Len(sigLog) < MaxSignals
    /\ sigLog' = Append(sigLog, s)
    /\ sig' = s
    /\ pcSig' = Dispatch(s)
    /\ UNCHANGED <<confVars, pwVars, wireVars, sharedVars, outVars, inVars, supVars, mainVars, ttyVars,
                   size, signalsOpen, queries, resizes, matcherVars>>

\* SIGWINCH: get_terminal_size() returns sz, Some or None
SigQuerySize(sz) ==
    /\ pcSig = "winch_size"
    /\ size' = sz
    /\ queries' = Append(queries, sz)
    /\ pcSig' = IF sz = "None" THEN "wait" ELSE "winch_lock"
    /\ UNCHANGED <<confVars, pwVars, wireVars, sharedVars, outVars, inVars, supVars, mainVars, ttyVars,
                   sig, signalsOpen, sigLog, resizes, matcherVars>>

\* SIGWINCH: master.lock()
SigLockMaster ==
    /\ pcSig = "winch_lock"
    /\ Unlocked(masterLock)
    /\ masterLock' = "sig"
    /\ pcSig' = "winch_resize"
    /\ UNCHANGED <<confVars, pwVars, wireVars, writer, master, writerLock, exit_code, ptyLog, outVars,
                   inVars, supVars, mainVars, ttyVars, sig, size, signalsOpen, sigLog,
                   queries, resizes, matcherVars>>

\* SIGWINCH: the resize under the lock, and the unlock
SigResize ==
    /\ pcSig = "winch_resize"
    /\ resizes' = Resize(master, resizes, size)
    /\ masterLock' = "free"
    /\ pcSig' = "wait"
    /\ UNCHANGED <<confVars, pwVars, wireVars, writer, master, writerLock, exit_code, ptyLog, outVars,
                   inVars, supVars, mainVars, ttyVars, sig, size, signalsOpen, sigLog,
                   queries, matcherVars>>

\* SIGINT, SIGTSTP: write_to_pty, writer.lock()
SigLockWriter ==
    /\ pcSig = "lock"
    /\ Unlocked(writerLock)
    /\ writerLock' = "sig"
    /\ pcSig' = "write"
    /\ UNCHANGED <<confVars, pwVars, wireVars, writer, master, masterLock, exit_code, ptyLog, outVars,
                   inVars, supVars, mainVars, ttyVars, sig, size, signalsOpen, sigLog,
                   queries, resizes, matcherVars>>

\* SIGINT, SIGTSTP: the write under the lock, and the unlock
SigWrite ==
    /\ pcSig = "write"
    /\ ptyLog' = WriteToPty(writer, ptyLog, "sig", SignalByte(sig))
    /\ writerLock' = "free"
    /\ pcSig' = "wait"
    /\ UNCHANGED <<confVars, pwVars, wireVars, writer, master, masterLock, exit_code, outVars, inVars,
                   supVars, mainVars, ttyVars, sig, size, signalsOpen, sigLog, queries,
                   resizes, matcherVars>>

\* the signal thread leaves signals.forever() once the iterator is closed
SigClosed ==
    /\ pcSig = "wait"
    /\ ~signalsOpen
    /\ pcSig' = "done"
    /\ UNCHANGED <<confVars, pwVars, wireVars, sharedVars, outVars, inVars, supVars, mainVars, ttyVars,
                   sig, size, signalsOpen, sigLog, queries, resizes, matcherVars>>

SigSteps ==
    \/ \E sz \in Sizes \cup {"None"} : SigQuerySize(sz)
    \/ SigLockMaster
    \/ SigResize
    \/ SigLockWriter
    \/ SigWrite
    \/ SigClosed

\* the exit statuses of the child in the runs with signals
SigStatuses == {[some |-> TRUE, code |-> U32(0, 0)]}

(***************************************************************************)
(* The supervisor with the signal thread, from child.wait() on             *)
(***************************************************************************)
NextSig ==
    \/ \E s \in Signals : SigNext(s)
    \/ SigSteps
    \/ ChildOutRead({HK_PATTERN}, MaxReadsSig)
    \/ ChildOutCloseLockWriter
    \/ ChildOutCloseWriter
    \/ ChildOutCloseLockMaster
    \/ ChildOutCloseMaster
    \/ ChildOutEof
    \/ \E d \in SigStdin : UserInRead(d)
    \/ UserInLock
    \/ UserInWrite
    \/ UserInEof
    \/ \E st \in SigStatuses : SupWait(st)
    \/ SupCloseSignals
    \/ SupJoin
    \/ SupReturn

SpecSig == Init /\ [][NextSig]_vars

\* every step of sshpass's own threads is eventually taken, and once the child
\* has exited the read of the master returns; what the child writes and when
\* it exits, standard input and the signals are the environment's
FairSig ==
    /\ WF_vars(pcSup # "wait" /\ ChildOutEof)
    /\ WF_vars(SigSteps)
    /\ WF_vars(ChildOutCloseLockWriter \/ ChildOutCloseWriter \/ ChildOutCloseLockMaster
                \/ ChildOutCloseMaster)
    /\ WF_vars(UserInLock \/ UserInWrite)
    /\ WF_vars(SupCloseSignals \/ SupJoin \/ SupReturn)

SpecSigFair == Init /\ [][NextSig]_vars /\ FairSig

(***************************************************************************)
(* A Matcher by itself: new, feed and reset called in any order            *)
(***************************************************************************)
\* the sequences over Alphabet of length at most n
Words(n) == UNION { [1..k -> Alphabet] : k \in 0..n }

\* matcher.feed(d), and the same call on the matcher constructed at the last reset
MatcherFeed(d) ==
    LET r == Feed(matcher.pattern, matcher.state, d)
        f == Feed(fresh.pattern, fresh.state, d)
    IN /\ feeds < MaxFeeds
       /\ matcher' = [matcher EXCEPT !.state = r.state]
       /\ fresh' = [fresh EXCEPT !.state = f.state]
       /\ fed' = fed \o d
       /\ hit' = (hit \/ r.fired)
       /\ last' = r.fired
       /\ agree' = (agree /\ r.fired = f.fired)
       /\ feeds' = feeds + 1
       /\ UNCHANGED <<confVars, pwVars, wireVars, sharedVars, outVars, inVars, supVars, mainVars, ttyVars,
                      sigVars, resets, atReset>>

\* matcher.reset(); a second matcher is constructed from the same pattern
MatcherReset ==
    /\ resets < MaxResets
    /\ matcher' = [matcher EXCEPT !.state = Reset(matcher.state)]
    /\ fresh' = New(matcher.pattern)
    /\ atReset' = matcher.state
    /\ fed' = <<>>
    /\ hit' = FALSE
    /\ agree' = TRUE
    /\ resets' = resets + 1
    /\ UNCHANGED <<confVars, pwVars, wireVars, sharedVars, outVars, inVars, supVars, mainVars, ttyVars,
                   sigVars, last, feeds>>

\* Matcher::new(p) for p among pats
InitMatcherWith(pats) ==
    /\ AtWait({DEFAULT_PROMPT}, Passwords)
    /\ \E p \in pats : matcher = New(p) /\ fresh = New(p)
    /\ fed = <<>> /\ hit = FALSE /\ last = FALSE /\ agree = TRUE
    /\ feeds = 0 /\ resets = 0 /\ atReset = 0

InitMatcher == InitMatcherWith(Words(MaxPattern))

NextMatcher ==
    \/ \E d \in Words(MaxChunk) : MatcherFeed(d)
    \/ MatcherReset

SpecMatcher == InitMatcher /\ [][NextMatcher]_vars

(***************************************************************************)
(* The three matchers of the child-out pump by themselves, fed pieces of   *)
(* their own pattern                                                       *)
(***************************************************************************)
\* the patterns of pw_matcher (by default), hk_matcher and hkc_matcher
RealPatterns == {DEFAULT_PROMPT, HK_PATTERN, HKC_PATTERN}

\* the nonempty prefixes and suffixes of p
Pieces(p) ==
    { SubSeq(p, 1, k) : k \in 1..Len(p) } \cup { SubSeq(p, k, Len(p)) : k \in 1..Len(p) }

InitReal == InitMatcherWith(RealPatterns)

NextReal == \E d \in Pieces(matcher.pattern) : MatcherFeed(d)

SpecReal == InitReal /\ [][NextReal]_vars

(***************************************************************************)
(* run() from its first line, and main                                     *)
(***************************************************************************)
\* a fallible step of the setup: on failure `?` returns the PtyError e
SetupStep(at, ok, next, e) ==
    /\ pcSup = at
    /\ pcSup' = IF ok THEN next ELSE "failed"
    /\ err' = IF ok THEN err ELSE e

\* pty_system.openpty(initial_size)
RunOpenPty(ok) ==
    /\ SetupStep("open", ok, "spawn", "Open")
    /\ UNCHANGED <<confVars, pwVars, wireVars, sharedVars, outVars, inVars, child_status, result, exited,
                   exit_status, ttyVars, sigVars, matcherVars>>

\* CommandBuilder::new (which copies the environment),
\* pair.slave.spawn_command(cmd), then drop(pair.slave)
RunSpawn(ok) ==
    /\ SetupStep("spawn", ok, "reader", "Spawn")
    /\ childEnv' = IF ok THEN [spawned |-> TRUE, var |-> env] ELSE childEnv
    /\ UNCHANGED <<confVars, pwSource, content, env, envInit, wireVars, sharedVars, outVars, inVars, child_status, result, exited,
                   exit_status, ttyVars, sigVars, matcherVars>>

\* pair.master.try_clone_reader()
RunReader(ok) ==
    /\ SetupStep("reader", ok, "writer", "Reader")
    /\ UNCHANGED <<confVars, pwVars, wireVars, sharedVars, outVars, inVars, child_status, result, exited,
                   exit_status, ttyVars, sigVars, matcherVars>>

\* pair.master.take_writer(), and the three shared values
RunWriter(ok) ==
    /\ SetupStep("writer", ok, "guard", "Writer")
    /\ writer' = IF ok THEN "Some" ELSE writer
    /\ master' = IF ok THEN "Some" ELSE master
    /\ exit_code' = 0
    /\ UNCHANGED <<confVars, pwVars, wireVars, writerLock, masterLock, ptyLog, outVars, inVars, child_status,
                   result, exited, exit_status, ttyVars, sigVars, matcherVars>>

\* let _raw_guard = RawModeGuard::enter()
RunRawGuard ==
    LET g == RawModeGuardEnter(stdin_tty, termios)
    IN /\ pcSup = "guard"
       /\ original' = g.original
       /\ termios' = g.termios
       /\ pcSup' = "signals"
       /\ UNCHANGED <<confVars, pwVars, wireVars, sharedVars, outVars, inVars, child_status, result,
                      mainVars, stdin_tty, sigVars, matcherVars>>

\* setup_unix_signals: Signals::new(..).ok()?, and the thread it spawns
RunSetupSignals(ok) ==
    /\ pcSup = "signals"
    /\ pcSig' = IF ok THEN "wait" ELSE "none"
    /\ signalsOpen' = ok
    /\ pcSup' = "spawn_in"
    /\ UNCHANGED <<confVars, pwVars, wireVars, sharedVars, outVars, inVars, child_status, result,
                   mainVars, ttyVars, sig, size, sigLog, queries, resizes, matcherVars>>

\* thread::spawn of the user-in pump
RunSpawnUserIn ==
    /\ pcSup = "spawn_in"
    /\ pcIn' = "read"
    /\ pcSup' = "spawn_out"
    /\ UNCHANGED <<confVars, pwVars, wireVars, restVars, sharedVars, outVars, inBuf, stdinLog, stdinReads,
                   inEnd, child_status, result>>

\* thread::spawn of the child-out pump
RunSpawnChildOut ==
    /\ pcSup = "spawn_out"
    /\ pcOut' = "read"
    /\ pcSup' = "wait"
    /\ UNCHANGED <<confVars, pwVars, wireVars, restVars, sharedVars, data, pw_matcher, hk_matcher,
                   hkc_matcher, password_sent, suppress_until_newline, stdout, chunks,
                   fires, matchEnd, outIdx, outEnd, inVars, child_status, result>>

\* eprintln! before the loop of the child-out pump panics: the thread ends
ChildOutPanic ==
    /\ pcOut = "read"
    /\ verbose
    /\ chunks = <<>>
    /\ pcOut' = "done"
    /\ outEnd' = "panic"
    /\ UNCHANGED <<confVars, pwVars, wireVars, restVars, sharedVars, data, pw_matcher, hk_matcher,
                   hkc_matcher, password_sent, suppress_until_newline, stdout, chunks,
                   fires, matchEnd, outIdx, inVars, supVars>>

\* a slip: the error arm returns the Ok value
ExitStatus_IgnoreErr(e, r) == r

\* main.rs run(): match pty::run(config)
ExitStatus(e, r) == IF e # "none" THEN EXIT_RUNTIME_ERROR ELSE r

\* process::exit(run())
MainExit ==
    /\ pcSup \in {"done", "failed"}
    /\ ~exited
    /\ exited' = TRUE
    /\ exit_status' = ExitStatus(err, result)
    /\ UNCHANGED <<confVars, pwVars, wireVars, sharedVars, outVars, inVars, supVars, err, ttyVars, sigVars,
                   matcherVars>>

\* the attributes a terminal on standard input may have when run() is entered
Attrs == {"cooked", "noecho"}

\* nothing of run() has happened yet
RunEntry ==
    /\ childEnv = [spawned |-> FALSE, var |-> Unset]
    /\ written = NoneWritten
    /\ writer = "None" /\ master = "None"
    /\ writerLock = "free" /\ masterLock = "free"
    /\ exit_code = 0
    /\ ptyLog = <<>>
    /\ pcOut = "unstarted" /\ data = <<>>
    /\ pw_matcher = 0 /\ hk_matcher = 0 /\ hkc_matcher = 0
    /\ password_sent = FALSE /\ suppress_until_newline = FALSE
    /\ stdout = <<>>
    /\ chunks = <<>> /\ fires = 0 /\ matchEnd = 0 /\ outIdx = <<>> /\ outEnd = "running"
    /\ pcIn = "unstarted" /\ inBuf = <<>> /\ stdinLog = <<>> /\ stdinReads = 0
    /\ inEnd = "running"
    /\ child_status = [some |-> FALSE, code |-> U32(0, 0)] /\ result = 0
    /\ err = "none" /\ exited = FALSE /\ exit_status = 0
    /\ original = "None"
    /\ pcSig = "unstarted" /\ sig = "none" /\ size = "None" /\ signalsOpen = FALSE
    /\ sigLog = <<>> /\ queries = <<>> /\ resizes = <<>>
    /\ MatcherIdle

InitRun ==
    /\ prompt = DEFAULT_PROMPT
    /\ password \in Passwords
    /\ verbose \in BOOLEAN
    /\ PasswordDirect
    /\ stdin_tty \in BOOLEAN /\ termios \in Attrs
    /\ pcSup = "open"
    /\ RunEntry

NextRun ==
    \/ \E ok \in BOOLEAN : RunOpenPty(ok)
    \/ \E ok \in BOOLEAN : RunSpawn(ok)
    \/ \E ok \in BOOLEAN : RunReader(ok)
    \/ \E ok \in BOOLEAN : RunWriter(ok)
    \/ RunRawGuard
    \/ \E ok \in BOOLEAN : RunSetupSignals(ok)
    \/ RunSpawnUserIn
    \/ RunSpawnChildOut
    \/ ChildOutRead(SupChunks(prompt, password), MaxReadsRun)
    \/ ChildOutSteps
    \/ ChildOutPanic
    \/ \E st \in ChildStatuses : SupWait(st)
    \/ SupCloseSignals
    \/ SigClosed
    \/ SupJoin
    \/ SupReturn
    \/ MainExit

SpecRun == InitRun /\ [][NextRun]_vars

(***************************************************************************)
(* password.rs, and main.rs up to the spawn of the child                   *)
(***************************************************************************)
\* BufRead::read_line: the content up to and including its first "\n"
ReadLine(c) ==
    LET pos == Position(c, NL)
    IN IF pos > 0 THEN SubSeq(c, 1, pos) ELSE c

\* str::lines().next(): the text before the first "\n", without that "\n"
\* and without a "\r" right before it; None when the text is empty
LinesNext(c) ==
    LET pos == Position(c, NL)
        l == SubSeq(c, 1, pos - 1)
    IN IF pos = 0 THEN c
       ELSE IF Len(l) > 0 /\ l[Len(l)] = 13 THEN SubSeq(l, 1, Len(l) - 1)
       ELSE l

\* first_line: s.lines().next().unwrap_or("")
FirstLine(c) == LinesNext(c)

\* a slip: the variable is read and left in the environment
EnvArm_Keep(e) ==
    IF e.set
    THEN [ok |-> TRUE, password |-> e.value, env |-> e, err |-> "none"]
    ELSE [ok |-> FALSE, password |-> <<>>, env |-> e, err |-> "EnvNotSet"]

\* resolve_password, the Env arm: std::env::var, then remove_var
EnvArm(e) ==
    IF e.set
    THEN [ok |-> TRUE, password |-> e.value, env |-> Unset, err |-> "none"]
    ELSE [ok |-> FALSE, password |-> <<>>, env |-> e, err |-> "EnvNotSet"]

\* resolve_password: readable says whether the file, fd or stdin could be read
ResolvePassword(source, c, e, readable) ==
    CASE source = "Direct" ->
           [ok |-> TRUE, password |-> c, env |-> e, err |-> "none"]
      [] source = "Env" -> EnvArm(e)
      [] source = "File" ->
           IF readable
           THEN [ok |-> TRUE, password |-> FirstLine(c), env |-> e, err |-> "none"]
           ELSE [ok |-> FALSE, password |-> <<>>, env |-> e, err |-> "FileOpen"]
      [] source = "Stdin" ->
           IF readable
           THEN [ok |-> TRUE, password |-> FirstLine(ReadLine(c)), env |-> e, err |-> "none"]
           ELSE [ok |-> FALSE, password |-> <<>>, env |-> e, err |-> "StdinRead"]
      [] source = "Fd" ->
           IF readable
           THEN [ok |-> TRUE, password |-> FirstLine(ReadLine(c)), env |-> e, err |-> "none"]
           ELSE [ok |-> FALSE, password |-> <<>>, env |-> e, err |-> "FdRead"]

\* main.rs run(): match resolve_password(&source), then the RunConfig
MainResolve(readable) ==
    LET r == ResolvePassword(pwSource, content, env, readable)
    IN /\ pcSup = "resolve"
       /\ readable \/ pwSource \in {"File", "Stdin", "Fd"}
       /\ password' = r.password
       /\ env' = r.env
       /\ err' = r.err
       /\ pcSup' = IF r.ok THEN "open" ELSE "failed"
       /\ UNCHANGED <<prompt, verbose, pwSource, content, envInit, childEnv, wireVars, sharedVars,
                      outVars, inVars, child_status, result, exited, exit_status, ttyVars,
                      sigVars, matcherVars>>

\* the bytes of a password file, fd or standard input: "p", " ", "\r", "\n"
PwAlphabet == {112, 32, 13, NL}

Contents == UNION { [1..k -> PwAlphabet] : k \in 0..MaxContent }

\* what the variable of -e may be when main starts
Envs == {Unset, SetTo(<<>>), SetTo(<<112, 119>>)}

InitMain ==
    /\ prompt = DEFAULT_PROMPT
    /\ verbose = FALSE
    /\ password = <<>>
    /\ pwSource \in {"Direct", "Env", "File", "Stdin", "Fd"}
    /\ content \in (CASE pwSource = "Direct" -> Passwords
                     [] pwSource = "Env" -> {<<>>}
                     [] OTHER -> Contents)
    /\ env \in Envs
    /\ envInit = env
    /\ stdin_tty = FALSE /\ termios = "cooked"
    /\ pcSup = "resolve"
    /\ RunEntry

NextMain ==
    \/ \E readable \in BOOLEAN : MainResolve(readable)
    \/ \E ok \in BOOLEAN : RunOpenPty(ok)
    \/ \E ok \in BOOLEAN : RunSpawn(ok)
    \/ \E ok \in BOOLEAN : RunReader(ok)
    \/ \E ok \in BOOLEAN : RunWriter(ok)
    \/ MainExit

SpecMain == InitMain /\ [][NextMain]_vars

(***************************************************************************)
(* The three writers of the master, with write_all inside write_to_pty     *)
(* taken apart into its write calls, each of which takes some of the bytes *)
(* that are left                                                           *)
(***************************************************************************)
\* the data a pump passes to write_to_pty, and the pump being inside it
Buffer(t) == IF t = "out" THEN Payload(password) ELSE inBuf
InWriteAll(t) == IF t = "out" THEN pcOut = "pw_write" ELSE pcIn = "write"

\* one write call of w.write_all(data) in thread t, which takes n bytes
WireWrite(t, n) ==
    /\ InWriteAll(t)
    /\ writer = "Some"
    /\ written[t] + n <= Len(Buffer(t))
    /\ ptyLog' = Append(ptyLog, [src |-> t,
                                  data |-> SubSeq(Buffer(t), written[t] + 1, written[t] + n)])
    /\ written' = [written EXCEPT ![t] = @ + n]
    /\ UNCHANGED <<confVars, pwVars, writer, master, writerLock, masterLock, exit_code,
                   outVars, inVars, supVars, restVars>>

\* child-out pump: write_all is through (or the slot was None), then the
\* flush, the unlock, and the rest of the loop body
WireOutFlush ==
    /\ pcOut = "pw_write"
    /\ writer = "Some" => written.out = Len(Payload(password))
    /\ written' = [written EXCEPT !.out = 0]
    /\ writerLock' = "free"
    /\ password_sent' = TRUE
    /\ pw_matcher' = Reset(pw_matcher)
    /\ AfterPrompt(data, TRUE, Len(Stream))
    /\ UNCHANGED <<confVars, pwVars, restVars, writer, master, masterLock, ptyLog, data,
                   chunks, fires, matchEnd, outEnd, inVars, supVars>>

\* user-in pump: write_all is through (or the slot was None), then the
\* flush and the unlock
WireInFlush ==
    /\ pcIn = "write"
    /\ writer = "Some" => written.in = Len(inBuf)
    /\ written' = [written EXCEPT !.in = 0]
    /\ writerLock' = "free"
    /\ pcIn' = "read"
    /\ UNCHANGED <<confVars, pwVars, restVars, writer, master, masterLock, exit_code, ptyLog,
                   outVars, inBuf, stdinLog, stdinReads, inEnd, supVars>>

\* the signals that make the signal thread write
WireSignals == {"SIGINT", "SIGTSTP"}

NextWire ==
    \/ ChildOutRead({prompt}, MaxReadsWire)
    \/ ChildOutLockPayload
    \/ \E n \in 1..Len(Payload(password)) : WireWrite("out", n)
    \/ WireOutFlush
    \/ ChildOutCloseLockWriter
    \/ ChildOutCloseWriter
    \/ ChildOutCloseLockMaster
    \/ ChildOutCloseMaster
    \/ \E d \in SigStdin : UserInRead(d)
    \/ UserInLock
    \/ \E n \in 1..Len(inBuf) : WireWrite("in", n)
    \/ WireInFlush
    \/ \E s \in WireSignals : SigNext(s)
    \/ SigLockWriter
    \/ SigWrite

SpecWire == Init /\ [][NextWire]_vars

(***************************************************************************)
(* Every user of the two Mutexes together: the child-out pump (payload,    *)
(* close_pty), the user-in pump, the signal thread (resize, control byte), *)
(* and the supervisor, which takes neither                                 *)
(***************************************************************************)
\* the signals whose arm takes a lock
LockSignals == {"SIGWINCH", "SIGINT"}

NextLocks ==
    \/ ChildOutRead({prompt}, MaxReadsWire)
    \/ ChildOutSteps
    \/ stdinReads < MaxStdinLocks /\ \E d \in SigStdin : UserInRead(d)
    \/ UserInLock
    \/ UserInWrite
    \/ Len(sigLog) < MaxSignalsLocks /\ \E s \in LockSignals : SigNext(s)
    \/ SigSteps
    \/ \E st \in SigStatuses : SupWait(st)
    \/ SupCloseSignals
    \/ SupJoin
    \/ SupReturn

\* every thread of sshpass that can take a step of its own eventually takes
\* one; the reads, the signals and the exit of the child are the environment's
FairLocks ==
    /\ WF_vars(ChildOutLockPayload \/ ChildOutWritePayload \/ ChildOutCloseLockWriter
                \/ ChildOutCloseWriter \/ ChildOutCloseLockMaster \/ ChildOutCloseMaster)
    /\ WF_vars(UserInLock \/ UserInWrite)
    /\ WF_vars(SigSteps)
    /\ WF_vars(SupCloseSignals \/ SupJoin \/ SupReturn)

SpecLocks == Init /\ [][NextLocks]_vars /\ FairLocks

(***************************************************************************)
(* Vocabulary of the claims                                                *)
(***************************************************************************)
RECURSIVE Bytes(_)
\* the bytes of a sequence of writes, in order
Bytes(log) == IF log = <<>> THEN <<>> ELSE Head(log).data \o Bytes(Tail(log))

IsFromOut(e) == e.src = "out"
IsFromIn(e) == e.src = "in"

\* the writes of the child-out pump, and of the user-in pump, that reached the master
PumpWrites == SelectSeq(ptyLog, IsFromOut)
UserWrites == SelectSeq(ptyLog, IsFromIn)

\* the child-out pump is inside write_to_pty(payload), or inside close_pty
Injecting == pcOut \in {"pw_lock", "pw_write"}
Closing == pcOut \in {"close_w_lock", "close_w", "close_m_lock", "close_m"}

\* the pump left its loop by a break after close_pty: both slots are absent
Terminated == pcOut = "done" => (writer = "None" /\ master = "None" /\ outEnd = "break")

\* s occurs in t as a contiguous substring at offset i (0-based)
OccursAt(s, t, i) == i + Len(s) <= Len(t) /\ SubSeq(t, i + 1, i + Len(s)) = s

\* the reference: s is a contiguous substring of t
Contains(t, s) == \E i \in 0..Len(t) : OccursAt(s, t, i)

Occurrences(t, s) == Cardinality({ i \in 0..Len(t) : OccursAt(s, t, i) })

RECURSIVE FeedAll(_, _, _)
\* the state of a matcher that was fed the chunks cs in order, up to its first firing
FeedAll(pattern, state, cs) ==
    IF cs = <<>> THEN state
    ELSE LET r == Feed(pattern, state, Head(cs))
         IN IF r.fired THEN r.state ELSE FeedAll(pattern, r.state, Tail(cs))

IsPrefix(s, t) == Len(s) <= Len(t) /\ SubSeq(t, 1, Len(s)) = s

RECURSIVE SuffixConcat(_, _)
\* out is the concatenation, in order, of one suffix (possibly empty) of each chunk
SuffixConcat(out, cs) ==
    IF cs = <<>> THEN out = <<>>
    ELSE LET c == cs[Len(cs)]
             m == IF Len(c) < Len(out) THEN Len(c) ELSE Len(out)
         IN \E k \in 0..m :
               /\ SubSeq(out, Len(out) - k + 1, Len(out)) = SubSeq(c, Len(c) - k + 1, Len(c))
               /\ SuffixConcat(SubSeq(out, 1, Len(out) - k), SubSeq(cs, 1, Len(cs) - 1))

(***************************************************************************)
(* C1. The child-out pump writes password || "\n" to the master at most    *)
(* once, and only in response to the first firing of the prompt matcher:   *)
(* password_sent is true exactly when that one write has been made, it is  *)
(* made while the firing count is 1, and password_sent never returns to    *)
(* false.                                                                  *)
(***************************************************************************)
C1_PasswordOnce ==
    /\ [](/\ Len(PumpWrites) <= 1
          /\ \A i \in 1..Len(PumpWrites) : PumpWrites[i].data = Payload(password)
          /\ password_sent <=> Len(PumpWrites) = 1
          /\ password_sent => fires >= 1
          /\ Injecting => (fires = 1 /\ ~password_sent)
          /\ (fires >= 1 /\ ~Injecting) => password_sent)
    /\ [][password_sent => password_sent']_vars

\* the prompt fired twice and the payload was still written once
C1_Witness ==
    fires = 2 /\ password_sent /\ Len(PumpWrites) = 1 /\ pcOut = "done"

(***************************************************************************)
(* C2. When the prompt matcher fires while password_sent is already true,  *)
(* the pump sets the exit code to 5, closes the pty (writer and master     *)
(* slots both absent once it has ended), writes no second password and     *)
(* processes no further chunk.                                             *)
(***************************************************************************)
C2_WrongPassword ==
    /\ [](fires >= 2 =>
            /\ fires = 2
            /\ exit_code = RETURN_INCORRECT_PASSWORD
            /\ Closing \/ pcOut = "done"
            /\ Terminated
            /\ Len(PumpWrites) = 1)
    /\ [][fires >= 2 => (chunks' = chunks /\ stdout' = stdout /\ PumpWrites' = PumpWrites
                         /\ exit_code' = exit_code)]_vars

C2_Witness ==
    /\ fires = 2 /\ exit_code = RETURN_INCORRECT_PASSWORD /\ pcOut = "done"
    /\ writer = "None" /\ master = "None" /\ Len(PumpWrites) = 1

(***************************************************************************)
(* C3. On every chunk that does not end the pump in step 1, a firing of    *)
(* the host-key-unknown matcher sets the exit code to 6, closes the pty    *)
(* and ends the pump; whatever the phase (before the prompt, in the chunk  *)
(* of the injection, during suppression, in passthrough) the pump never    *)
(* goes on with exit code 0 or 7 past a chunk that completes the pattern.  *)
(***************************************************************************)
C3_HostKeyUnknown ==
    /\ hk_matcher = Len(HK_PATTERN) =>
          /\ exit_code = RETURN_HOST_KEY_UNKNOWN
          /\ Closing \/ pcOut = "done"
          /\ Terminated
    /\ (~Injecting /\ exit_code \in {0, RETURN_HOST_KEY_CHANGED}) =>
          ~Contains(Stream, HK_PATTERN)

\* the host-key-unknown matcher fired during echo suppression
C3_Witness ==
    /\ exit_code = RETURN_HOST_KEY_UNKNOWN /\ pcOut = "done"
    /\ password_sent /\ suppress_until_newline
    /\ writer = "None" /\ master = "None"

(***************************************************************************)
(* C4. On every chunk on which neither the wrong-password termination nor  *)
(* the host-key-unknown matcher fired, a firing of the host-key-changed    *)
(* matcher sets the exit code to 7, closes the pty and ends the pump; and  *)
(* while the pump goes on with exit code 0 that matcher has been fed every *)
(* chunk read so far, in order, and has not fired.                         *)
(***************************************************************************)
C4_HostKeyChanged ==
    /\ hkc_matcher = Len(HKC_PATTERN) =>
          /\ exit_code = RETURN_HOST_KEY_CHANGED
          /\ Closing \/ pcOut = "done"
          /\ Terminated
    /\ (~Injecting /\ exit_code = 0) =>
          /\ hkc_matcher = FeedAll(HKC_PATTERN, 0, chunks)
          /\ hkc_matcher < Len(HKC_PATTERN)

C4_Witness ==
    /\ exit_code = RETURN_HOST_KEY_CHANGED /\ pcOut = "done" /\ password_sent
    /\ writer = "None" /\ master = "None"

(***************************************************************************)
(* C5. Exit-code dominance: the supervisor loads the exit-code slot only   *)
(* after the child-out pump has ended, so whenever the pump set 5, 6 or 7  *)
(* the value run() returns is that code, whatever the child's own status.  *)
(***************************************************************************)
C5_ExitCodeDominance ==
    /\ pcSup \in {"load", "done"} => pcOut = "done"
    /\ (pcSup = "done" /\ exit_code # 0) =>
          /\ exit_code \in {RETURN_INCORRECT_PASSWORD, RETURN_HOST_KEY_UNKNOWN,
                             RETURN_HOST_KEY_CHANGED}
          /\ result = exit_code

\* the child exited with 42 and run() returned 6
C5_Witness ==
    /\ pcSup = "done" /\ exit_code = RETURN_HOST_KEY_UNKNOWN
    /\ child_status = [some |-> TRUE, code |-> U32(0, 42)]
    /\ result = RETURN_HOST_KEY_UNKNOWN

(***************************************************************************)
(* C6. When no distinguished code was set, the value run() returns is the  *)
(* child's exit code clamped to 0..255 (255 when the status is             *)
(* unavailable): a code in 0..255 is forwarded unchanged and the result    *)
(* never lies outside 0..255.                                              *)
(***************************************************************************)
C6_ClampedExit ==
    (pcSup = "done" /\ exit_code = 0) =>
        /\ result \in 0..255
        /\ ~child_status.some => result = 255
        /\ (child_status.some /\ child_status.code.hi = 0 /\ child_status.code.lo <= 255)
              => result = child_status.code.lo
        /\ (child_status.some /\ (child_status.code.hi > 0 \/ child_status.code.lo > 255))
              => result = 255

(***************************************************************************)
(* C7. No-leak: in a run where the child emits the prompt and then echoes  *)
(* the injected line (the password bytes and a newline, right after the    *)
(* prompt, the password occurring nowhere else in the stream), stdout      *)
(* never contains the password as a contiguous substring.                  *)
(***************************************************************************)
C7_NoLeak ==
    (/\ matchEnd > 0
     /\ Len(password) > 0
     /\ OccursAt(Payload(password), Stream, matchEnd)
     /\ Occurrences(Stream, password) = 1)
    => ~Contains(stdout, password)

(***************************************************************************)
(* C8. After the injection every byte of the child's output that follows   *)
(* the prompt match, up to and including the first newline after the       *)
(* prompt in the stream, is withheld from stdout, and every byte after     *)
(* that newline is emitted, wherever the chunk boundaries fall and         *)
(* whatever precedes the prompt in its chunk.                              *)
(***************************************************************************)
C8_SuppressUntilNewline ==
    LET first == matchEnd + 1
        after == { i \in (matchEnd + 1)..Len(Stream) : Stream[i] = NL }
        nl == IF after = {} THEN Len(Stream) + 1
              ELSE CHOOSE i \in after : \A j \in after : i <= j
    IN matchEnd > 0 =>
         /\ \A k \in 1..Len(outIdx) : ~(first <= outIdx[k] /\ outIdx[k] <= nl)
         /\ (~Injecting /\ exit_code = 0) =>
               \A i \in (nl + 1)..Len(Stream) : \E k \in 1..Len(outIdx) : outIdx[k] = i

(***************************************************************************)
(* C9. The child-out pump is a transparent proxy apart from suppression:   *)
(* stdout is always the in-order concatenation of whole chunks or chunk    *)
(* suffixes of the child's output, and in a run where no matcher fired it  *)
(* equals the whole stream read from the master.                           *)
(***************************************************************************)
C9_TransparentProxy ==
    /\ SuffixConcat(stdout, chunks)
    /\ (pcOut \in {"read", "done"} /\ fires = 0 /\ exit_code = 0) => stdout = Stream

\* a chunk of which a proper suffix was emitted
C9_Witness ==
    /\ chunks = <<prompt \o <<NL>> \o PlainText, PlainText>>
    /\ stdout = PlainText \o PlainText
    /\ pcOut = "done"

(***************************************************************************)
(* C10. While the writer slot is present, the bytes the user-in pump wrote *)
(* to the master are exactly the bytes it read from standard input, in     *)
(* order (the chunk in hand excepted); they are always a prefix of them;   *)
(* and the pump has ended exactly when a read returned end-of-file or an   *)
(* error.                                                                  *)
(***************************************************************************)
C10_UserInForwarding ==
    LET pending == IF pcIn \in {"lock", "write"} THEN inBuf ELSE <<>>
    IN /\ writer = "Some" => Bytes(UserWrites) \o pending = stdinLog
       /\ IsPrefix(Bytes(UserWrites), stdinLog)
       /\ pcIn = "done" <=> inEnd \in {"eof", "err"}

\* two different chunks forwarded in order, then end-of-file
C10_Witness ==
    /\ writer = "Some" /\ pcIn = "done" /\ inEnd = "eof"
    /\ Len(UserWrites) = 2
    /\ Bytes(UserWrites) = <<3, 113, 10>>

(***************************************************************************)
(* C11. Terminal restoration: when run() has returned after the raw-mode   *)
(* guard was acquired (by a normal child exit, an unavailable status, a    *)
(* code 5, 6 or 7, or a panic of the child-out pump), the attributes of    *)
(* the terminal on standard input equal the snapshot the guard took at     *)
(* entry, the terminal being raw in between; when standard input is not a  *)
(* terminal the guard holds no snapshot and the attributes never change.   *)
(***************************************************************************)
GuardHeld == pcSup \in {"signals", "spawn_in", "spawn_out", "wait", "close_signals",
                        "join", "load"}

C11_TerminalRestored ==
    /\ [](/\ (pcSup = "done" /\ stdin_tty) => (original \in Attrs /\ termios = original)
          /\ (GuardHeld /\ stdin_tty) => (original \in Attrs /\ termios = "raw")
          /\ ~stdin_tty => (original = "None" /\ termios \in Attrs))
    /\ [][~stdin_tty => termios' = termios]_vars

C11_Witness ==
    /\ pcSup = "done" /\ stdin_tty
    /\ outEnd = "panic"
    /\ original = "noecho" /\ termios = "noecho"

(***************************************************************************)
(* Vocabulary of the claims about signals                                  *)
(***************************************************************************)
IsFromSig(e) == e.src = "sig"
IsSome(sz) == sz # "None"

\* the writes of the signal thread that reached the master
SigWrites == SelectSeq(ptyLog, IsFromSig)

\* the signals whose arm has run to its end, and the size queries of those arms
Handled ==
    IF pcSig \in {"winch_size", "winch_lock", "winch_resize", "lock", "write"}
    THEN SubSeq(sigLog, 1, Len(sigLog) - 1)
    ELSE sigLog
HandledQueries ==
    IF pcSig \in {"winch_lock", "winch_resize"}
    THEN SubSeq(queries, 1, Len(queries) - 1)
    ELSE queries

RECURSIVE ControlBytes(_)
\* 0x03 for each SIGINT and 0x1A for each SIGTSTP of log, in order
ControlBytes(log) ==
    IF log = <<>> THEN <<>>
    ELSE (CASE Head(log) = "SIGINT" -> <<3>>
            [] Head(log) = "SIGTSTP" -> <<26>>
            [] OTHER -> <<>>) \o ControlBytes(Tail(log))

NumOf(log, s) == Cardinality({ i \in 1..Len(log) : log[i] = s })

TerminateReceived == \E i \in 1..Len(sigLog) : sigLog[i] \in {"SIGTERM", "SIGHUP"}

(***************************************************************************)
(* C12. Once close_pty has emptied a slot, every later attempt on it is a  *)
(* silent no-op: no write of the user-in pump, the signal thread or the    *)
(* child-out pump reaches the child while the writer slot is None, no      *)
(* resize happens while the master slot is None, and with both slots       *)
(* empty the closing thread holds neither lock, so no attempt blocks.      *)
(***************************************************************************)
C12_NoOpAfterClose ==
    /\ [][/\ writer = "None" => ptyLog' = ptyLog
          /\ master = "None" => resizes' = resizes]_vars
    /\ []((writer = "None" /\ master = "None") =>
             (writerLock # "out" /\ masterLock # "out" /\ pcOut = "done"))

C12_Witness ==
    /\ writer = "None" /\ master = "None"
    /\ pcIn = "read" /\ stdinReads = 1 /\ UserWrites = <<>>
    /\ pcSig = "wait" /\ sigLog = <<"SIGINT", "SIGWINCH">>
    /\ queries = <<"24x80">>
    /\ SigWrites = <<>> /\ resizes = <<>>

(***************************************************************************)
(* C13 as stated. While the pty is open, the signal thread has written     *)
(* exactly one 0x03 per SIGINT and one 0x1A per SIGTSTP it handled, and    *)
(* nothing else, and has resized the master once per SIGWINCH it handled.  *)
(***************************************************************************)
C13_EachSignal ==
    (writer = "Some" /\ master = "Some") =>
        /\ Bytes(SigWrites) = ControlBytes(Handled)
        /\ Len(resizes) = NumOf(Handled, "SIGWINCH")

(***************************************************************************)
(* C13 amended. While the pty is open, the signal thread has written       *)
(* exactly one 0x03 per SIGINT and one 0x1A per SIGTSTP it handled, each   *)
(* in a write of its own, and nothing else; it has resized the master to   *)
(* the queried size once per SIGWINCH whose size query succeeded, and not  *)
(* at all for a SIGWINCH whose query failed.                               *)
(***************************************************************************)
C13_EachSignalQueried ==
    (writer = "Some" /\ master = "Some") =>
        /\ Bytes(SigWrites) = ControlBytes(Handled)
        /\ \A i \in 1..Len(SigWrites) : Len(SigWrites[i].data) = 1
        /\ resizes = SelectSeq(HandledQueries, IsSome)
        /\ Len(queries) = NumOf(sigLog, "SIGWINCH") - (IF pcSig = "winch_size" THEN 1 ELSE 0)

C13_Witness ==
    /\ writer = "Some" /\ master = "Some"
    /\ pcSig = "wait" /\ sigLog = <<"SIGTSTP", "SIGWINCH">>
    /\ Bytes(SigWrites) = <<26>>
    /\ resizes = <<"43x132">>

(***************************************************************************)
(* C14. Once SIGTERM or SIGHUP has been received, the supervisor           *)
(* eventually reaches its teardown and returns, whether or not the child   *)
(* exits of its own accord.                                                *)
(***************************************************************************)
C14_TerminateShutsDown == TerminateReceived ~> (pcSup = "done")

(***************************************************************************)
(* C15. When the pty open, the child spawn, the reader acquisition or the  *)
(* writer acquisition fails, run() has returned an error with the raw-mode *)
(* guard never acquired (the terminal attributes untouched), the signal    *)
(* bridge not installed and neither pump thread started, and the process   *)
(* exits with code 3.                                                      *)
(***************************************************************************)
C15_SetupFailure ==
    /\ err # "none" =>
          /\ pcSup = "failed"
          /\ original = "None" /\ termios \in Attrs
          /\ pcSig = "unstarted" /\ signalsOpen = FALSE
          /\ pcIn = "unstarted" /\ pcOut = "unstarted"
          /\ exited => exit_status = EXIT_RUNTIME_ERROR
    /\ pcSup = "failed" => err \in {"Open", "Spawn", "Reader", "Writer"}

C15_Witness ==
    /\ exited /\ err = "Writer"
    /\ exit_status = EXIT_RUNTIME_ERROR
    /\ stdin_tty

(***************************************************************************)
(* Vocabulary of the claims about the matcher                              *)
(***************************************************************************)
\* the first byte of p occurs nowhere else in p
FirstUnique(p) == Len(p) > 0 /\ \A i \in 2..Len(p) : p[i] # p[1]

\* the lengths of the prefixes of p that are suffixes of t
Borders(p, t) ==
    { k \in 0..Len(p) : k <= Len(t) /\ SubSeq(p, 1, k) = SubSeq(t, Len(t) - k + 1, Len(t)) }

\* the length of the longest prefix of p that is a suffix of t
LongestBorder(p, t) == CHOOSE k \in Borders(p, t) : \A j \in Borders(p, t) : j <= k

(***************************************************************************)
(* C16. Matcher monotonicity: for a pattern whose first byte occurs        *)
(* nowhere else in it, and any chunks fed in order to a freshly            *)
(* constructed matcher with no reset, some feed has returned true exactly  *)
(* when the pattern occurs as a contiguous substring of the bytes fed.     *)
(***************************************************************************)
C16_Monotone ==
    (resets = 0 /\ FirstUnique(matcher.pattern)) => (hit <=> Contains(fed, matcher.pattern))

C16_Witness ==
    /\ resets = 0 /\ feeds = 2
    /\ matcher.pattern = <<97, 98, 98>>
    /\ fed = <<97, 98, 98>>
    /\ hit

(***************************************************************************)
(* C17. For each of the three patterns the child-out pump uses, and any    *)
(* chunks fed in order to a freshly constructed matcher, some feed has     *)
(* returned true exactly when the pattern occurs as a contiguous substring *)
(* of the bytes fed: no occurrence is missed.                              *)
(***************************************************************************)
C17_RealPatterns == resets = 0 => (hit <=> Contains(fed, matcher.pattern))

(***************************************************************************)
(* C18 as stated. For every pattern, while no feed since construction or   *)
(* the last reset has returned true, the state is between 0 and the        *)
(* pattern's length and is the length of the longest prefix of the pattern *)
(* that is a suffix of the bytes fed since then.                           *)
(***************************************************************************)
C18_StateIsLongestPrefix ==
    ~hit => (/\ matcher.state \in 0..Len(matcher.pattern)
             /\ matcher.state = LongestBorder(matcher.pattern, fed))

(***************************************************************************)
(* C18 amended. For every pattern the state is between 0 and the pattern's *)
(* length; for the empty pattern and for a pattern whose first byte occurs *)
(* nowhere else in it, while no feed since construction or the last reset  *)
(* has returned true, the state is the length of the longest prefix of the *)
(* pattern that is a suffix of the bytes fed since then.                   *)
(***************************************************************************)
C18_StateIsLongestPrefixFirstUnique ==
    /\ matcher.state \in 0..Len(matcher.pattern)
    /\ (~hit /\ (matcher.pattern = <<>> \/ FirstUnique(matcher.pattern)))
          => matcher.state = LongestBorder(matcher.pattern, fed)

C18_Witness ==
    /\ matcher.pattern = <<97, 98, 98>>
    /\ fed = <<97, 98, 97, 98>>
    /\ ~hit /\ matcher.state = 2

(***************************************************************************)
(* C19. A matcher with an empty pattern returns false from every feed,     *)
(* the empty buffer included, after any calls of feed and reset, and its   *)
(* state stays 0.                                                          *)
(***************************************************************************)
C19_EmptyPattern ==
    matcher.pattern = <<>> => (~last /\ ~hit /\ matcher.state = 0 /\ atReset = 0)

C19_Witness ==
    /\ matcher.pattern = <<>>
    /\ feeds = 2 /\ resets = 1
    /\ fed = <<97, 98>>

(***************************************************************************)
(* C20. Idempotent reset: after reset(), whether it found a partial match, *)
(* a completed match or nothing, every feed returns what the same feed     *)
(* returns on a matcher freshly constructed from the same pattern, and a   *)
(* second reset changes nothing.                                           *)
(***************************************************************************)
C20_ResetIsFresh ==
    /\ resets > 0 => (agree /\ matcher = fresh)
    /\ Reset(Reset(matcher.state)) = Reset(matcher.state)
    /\ Reset(matcher.state) = New(matcher.pattern).state

C20_Witness ==
    /\ matcher.pattern = <<97, 98>>
    /\ resets = 1 /\ atReset = 1
    /\ feeds = 2 /\ fed = <<98>>
    /\ ~last

(***************************************************************************)
(* Vocabulary of the claims about the password                             *)
(***************************************************************************)
\* the bytes of c before its first "\n", all of c when it has none
UpToNewline(c) ==
    IF \E i \in 1..Len(c) : c[i] = NL
    THEN SubSeq(c, 1, (CHOOSE i \in 1..Len(c) : c[i] = NL /\ \A j \in 1..(i - 1) : c[j] # NL) - 1)
    ELSE c

(***************************************************************************)
(* C21. For every content read from a password file, a file descriptor or  *)
(* standard input, the resolved password is exactly the content before its *)
(* first "\n", nothing trimmed (no space, no carriage return); the whole   *)
(* content when it has no newline, the empty password when it is empty.    *)
(***************************************************************************)
C21_FirstLine ==
    (pwSource \in {"File", "Stdin", "Fd"} /\ pcSup = "open") => password = UpToNewline(content)

(***************************************************************************)
(* C22. With the environment source, a successful read returns the value   *)
(* of the variable and leaves it unset from then on, so the child is       *)
(* spawned without it; when the variable is not set, resolve_password      *)
(* returns an error, the environment is as it was and no child is spawned. *)
(***************************************************************************)
C22_EnvRemoved ==
    pwSource = "Env" =>
        /\ (envInit.set /\ pcSup # "resolve") =>
              /\ password = envInit.value
              /\ env = Unset
              /\ childEnv.spawned => childEnv.var = Unset
        /\ (~envInit.set /\ pcSup # "resolve") =>
              /\ pcSup = "failed" /\ err = "EnvNotSet"
              /\ env = envInit
              /\ ~childEnv.spawned
              /\ exited => exit_status = EXIT_RUNTIME_ERROR

C22_Witness ==
    /\ pwSource = "Env" /\ envInit = SetTo(<<112, 119>>)
    /\ password = <<112, 119>>
    /\ childEnv = [spawned |-> TRUE, var |-> Unset]

(***************************************************************************)
(* Vocabulary of the claims about the loop body of the child-out pump      *)
(***************************************************************************)
\* the bytes of d after its first "\n"; only used when d has one
AfterNewline(d) ==
    SubSeq(d, (CHOOSE i \in 1..Len(d) : d[i] = NL /\ \A j \in 1..(i - 1) : d[j] # NL) + 1,
           Len(d))

HasNewline(d) == \E i \in 1..Len(d) : d[i] = NL

\* the stream offset at which chunk k begins
ChunkStart(k) == Len(Flatten(SubSeq(chunks, 1, k - 1)))

\* the chunk in which the prompt matcher fired first
InjectChunk ==
    CHOOSE k \in 1..Len(chunks) : ChunkStart(k) < matchEnd /\ matchEnd <= ChunkStart(k + 1)

\* the rule of step 4, for every step that reaches it: with the flag set, a
\* chunk with a newline clears the flag and is emitted from after that
\* newline, a chunk without one emits nothing; with the flag clear the
\* chunk is emitted in full
EmissionRule ==
    [][(pcOut \in {"read", "pw_write"} /\ pcOut' = "read") =>
         LET d == IF pcOut = "pw_write" THEN data ELSE chunks'[Len(chunks')]
             flag == pcOut = "pw_write" \/ suppress_until_newline
         IN IF ~flag
            THEN stdout' = stdout \o d /\ ~suppress_until_newline'
            ELSE IF HasNewline(d)
            THEN stdout' = stdout \o AfterNewline(d) /\ ~suppress_until_newline'
            ELSE stdout' = stdout /\ suppress_until_newline']_vars

(***************************************************************************)
(* C23. The per-chunk emission rule has this consequence: if after the     *)
(* injection the child writes no newline, nothing further is written to    *)
(* stdout, that is, every byte of stdout comes from a chunk read before    *)
(* the chunk of the injection.                                             *)
(***************************************************************************)
C23_NoNewlineNoOutput ==
    (/\ matchEnd > 0
     /\ ~Injecting
     /\ \A i \in (matchEnd + 1)..Len(Stream) : Stream[i] # NL)
    => \A k \in 1..Len(outIdx) : outIdx[k] <= ChunkStart(InjectChunk)

(***************************************************************************)
(* C24. The exit-code slot only holds 0, 5, 6 or 7.  It is terminal: once  *)
(* it is non-zero it never changes (so it is written at most once), and    *)
(* the child-out pump reads no further chunk, feeds no matcher, and writes *)
(* nothing more to stdout or to the pty; the chunk that set the code is    *)
(* itself not emitted.                                                     *)
(***************************************************************************)
C24_ExitCodeTerminal ==
    /\ [](exit_code \in {0, RETURN_INCORRECT_PASSWORD, RETURN_HOST_KEY_UNKNOWN,
                         RETURN_HOST_KEY_CHANGED})
    /\ [][exit_code # 0 =>
             /\ exit_code' = exit_code
             /\ chunks' = chunks
             /\ <<pw_matcher, hk_matcher, hkc_matcher>>' = <<pw_matcher, hk_matcher, hkc_matcher>>
             /\ stdout' = stdout
             /\ PumpWrites' = PumpWrites]_vars
    /\ [][(exit_code = 0 /\ exit_code' # 0) => stdout' = stdout]_vars

\* a host-key chunk that would have been emitted in full set the code, and the
\* pump has finished
C24_Witness ==
    /\ exit_code = RETURN_HOST_KEY_UNKNOWN
    /\ pcOut = "done"
    /\ ~password_sent
    /\ Len(chunks) = 2
    /\ stdout = chunks[1]

(***************************************************************************)
(* Vocabulary of the claim about the order of the steps                    *)
(***************************************************************************)
\* a step of the pump that reads a chunk, and that chunk
ReadsChunk == chunks' # chunks
NewChunk == chunks'[Len(chunks')]

\* feeding d to the matcher of a pattern in its present state fires it
PromptFires(d) == Feed(prompt, pw_matcher, d).fired
UnknownFires(d) == Feed(HK_PATTERN, hk_matcher, d).fired
ChangedFires(d) == Feed(HKC_PATTERN, hkc_matcher, d).fired

(***************************************************************************)
(* C25. The order of the steps decides: a second firing of the prompt      *)
(* yields 5 even if the chunk also fires a host-key matcher; otherwise a   *)
(* firing of host-key-unknown yields 6 even if host-key-changed fires too, *)
(* and host-key-changed alone yields 7; a chunk that fires the prompt for  *)
(* the first time is still fed to both host-key matchers, so the password  *)
(* is written first and 6 or 7 is then set on the same chunk.              *)
(***************************************************************************)
C25_StepOrder ==
    /\ [][(ReadsChunk /\ PromptFires(NewChunk) /\ password_sent) =>
             /\ exit_code' = RETURN_INCORRECT_PASSWORD
             /\ PumpWrites' = PumpWrites]_vars
    /\ [][(ReadsChunk /\ ~PromptFires(NewChunk)) =>
             exit_code' = IF UnknownFires(NewChunk) THEN RETURN_HOST_KEY_UNKNOWN
                          ELSE IF ChangedFires(NewChunk) THEN RETURN_HOST_KEY_CHANGED
                          ELSE 0]_vars
    /\ [][(ReadsChunk /\ PromptFires(NewChunk) /\ ~password_sent) =>
             (exit_code' = 0 /\ pcOut' = "pw_lock" /\ PumpWrites' = PumpWrites)]_vars
    /\ [][(pcOut = "pw_write" /\ pcOut' # pcOut) =>
             /\ PumpWrites' = Append(PumpWrites, [src |-> "out", data |-> Payload(password)])
             /\ exit_code' = IF UnknownFires(data) THEN RETURN_HOST_KEY_UNKNOWN
                              ELSE IF ChangedFires(data) THEN RETURN_HOST_KEY_CHANGED
                              ELSE 0]_vars

\* one chunk held the prompt and the host-key-changed message: the password
\* was written and the code is 7
C25_Witness ==
    /\ Len(chunks) = 1
    /\ chunks[1] = prompt \o HKC_PATTERN
    /\ Len(PumpWrites) = 1
    /\ exit_code = RETURN_HOST_KEY_CHANGED

\* the other cases of the claim: 5 on a chunk that also holds a host-key
\* message, 6 on a chunk that holds both host-key messages
C25_SecondPromptWins ==
    /\ exit_code = RETURN_INCORRECT_PASSWORD
    /\ Contains(chunks[Len(chunks)], HK_PATTERN)

C25_UnknownWins ==
    /\ exit_code = RETURN_HOST_KEY_UNKNOWN
    /\ Contains(chunks[Len(chunks)], HKC_PATTERN)

(***************************************************************************)
(* Vocabulary of the claim about the writes to the master                  *)
(***************************************************************************)
RECURSIVE Sources(_)
\* for each byte that reached the master, in order, the thread that wrote it
Sources(log) ==
    IF log = <<>> THEN <<>>
    ELSE [i \in 1..Len(Head(log).data) |-> Head(log).src] \o Sources(Tail(log))

\* the threads that are between lock() and the unlock of the writer Mutex
InsideWriterLock ==
    {t \in {"out", "in", "sig"} :
        \/ t = "out" /\ pcOut \in {"pw_write", "close_w"}
        \/ t = "in" /\ pcIn = "write"
        \/ t = "sig" /\ pcSig = "write"}

(***************************************************************************)
(* C26. Every write to the master (the payload, a chunk of user input, a   *)
(* control byte) is made by a thread that holds the writer lock, which at  *)
(* most one thread does at a time; so under every interleaving the bytes   *)
(* of password || "\n" reach the child contiguously, with no byte of user  *)
(* input and no 0x03 or 0x1A between them.                                 *)
(***************************************************************************)
C26_PayloadContiguous ==
    /\ [](/\ Cardinality(InsideWriterLock) <= 1
          /\ \A t \in InsideWriterLock : writerLock = t
          /\ LET w == Sources(ptyLog)
             IN \A i, k \in 1..Len(w) :
                    (i < k /\ w[i] = "out" /\ w[k] = "out") => \A j \in i..k : w[j] = "out"
          /\ password_sent => Bytes(PumpWrites) = Payload(password))
    /\ [][ptyLog' # ptyLog =>
             /\ Len(ptyLog') = Len(ptyLog) + 1
             /\ writerLock = ptyLog'[Len(ptyLog')].src]_vars

\* the payload is half written while the user-in pump and the signal thread
\* both wait for the lock
C26_Witness ==
    /\ pcOut = "pw_write" /\ written.out = 1
    /\ pcIn = "lock" /\ inBuf # <<>>
    /\ pcSig = "lock"

\* the payload went out in two write calls, after user input and before a
\* control byte
C26_Between ==
    /\ password_sent /\ Len(PumpWrites) = 2
    /\ ptyLog[1].src = "in"
    /\ ptyLog[Len(ptyLog)].src = "sig"

(***************************************************************************)
(* C27. Teardown order: the terminal attributes are restored only after    *)
(* the child-out pump has terminated and the signal iterator was closed,   *)
(* in run()'s return, before main exits the process; the user-in pump is   *)
(* not waited for, so it may still be alive, with its reference to the     *)
(* writer, when the pty was closed and the terminal is restored.           *)
(***************************************************************************)
C27_TeardownOrder ==
    /\ [][(termios = "raw" /\ termios' # "raw") =>
             /\ pcOut = "done"
             /\ ~signalsOpen
             /\ pcSup = "load" /\ pcSup' = "done"
             /\ ~exited /\ ~exited']_vars
    /\ [](exited => termios # "raw")

\* run() has returned after close_pty with the terminal restored, and the
\* user-in pump is still inside its read of standard input
C27_Witness ==
    /\ pcSup = "done" /\ stdin_tty /\ termios = original
    /\ writer = "None" /\ master = "None"
    /\ pcIn = "read"
    /\ ~exited

(***************************************************************************)
(* C28. Once the child has exited and the read of the master has returned  *)
(* end of file or an error, run() eventually returns under fair scheduling *)
(* of the supervisor, even if the user-in pump stays in its read of        *)
(* standard input for ever: the supervisor does not wait for that pump.    *)
(***************************************************************************)
C28_ReturnsWithoutUserIn ==
    (pcSup # "wait" /\ outEnd \in {"eof", "err"}) ~> (pcSup = "done")

\* run() has returned and standard input has never delivered anything
C28_Witness ==
    /\ pcSup = "done" /\ outEnd \in {"eof", "err"}
    /\ pcIn = "read" /\ stdinReads = 0

(***************************************************************************)
(* C29. Whenever the pump has set 5, 6 or 7, the writer and the master     *)
(* slot are both absent before the pump terminates; and, if the child      *)
(* exits once its pty is closed, wait() eventually returns and run()       *)
(* eventually returns that code.                                           *)
(***************************************************************************)
C29_CodeIsReturned ==
    /\ []((exit_code # 0 /\ pcOut = "done") => (writer = "None" /\ master = "None"))
    /\ [][exit_code # 0 => exit_code' = exit_code]_vars
    /\ (exit_code # 0) ~> (pcSup = "done" /\ result = exit_code)

\* the child exited with 42 only after the pump had closed the pty on a
\* second prompt, while the user-in pump was still reading; run() returned 5
C29_Witness ==
    /\ pcSup = "done" /\ result = RETURN_INCORRECT_PASSWORD
    /\ child_status = [some |-> TRUE, code |-> U32(0, 42)]
    /\ pcIn = "read"

(***************************************************************************)
(* Vocabulary of the claim about chunkings: the decision of the pump as a  *)
(* function of the sequence of chunks                                      *)
(***************************************************************************)
\* nothing read yet
Undecided == [pw |-> 0, hk |-> 0, hkc |-> 0, sent |-> FALSE, code |-> 0]

\* the loop body on chunk d, as far as injection and exit code go
Decide(st, d) ==
    LET r == Feed(prompt, st.pw, d)
        o == HostKeys(d, st.hk, st.hkc, FALSE)
    IN IF st.code # 0 THEN st
       ELSE IF r.fired /\ PromptBranch(st.sent) = "wrong"
       THEN [st EXCEPT !.pw = r.state, !.code = RETURN_INCORRECT_PASSWORD]
       ELSE [pw |-> IF r.fired THEN Reset(r.state) ELSE r.state,
             hk |-> o.hk, hkc |-> o.hkc,
             sent |-> st.sent \/ r.fired,
             code |-> o.code]

RECURSIVE DecideAll(_, _)
DecideAll(st, cs) == IF cs = <<>> THEN st ELSE DecideAll(Decide(st, Head(cs)), Tail(cs))

\* whether the password is injected, and the code set
Outcome(cs) ==
    LET st == DecideAll(Undecided, cs) IN [sent |-> st.sent, code |-> st.code]

\* the pump's decision on the chunks it has read is the one Outcome computes
OutcomeIsThePumps ==
    ~Injecting => [sent |-> password_sent, code |-> exit_code] = Outcome(chunks)

(***************************************************************************)
(* C30. The decision (whether the password is injected, and which of the   *)
(* codes none, 5, 6, 7 is set) depends only on the concatenated stream:    *)
(* the chunks read give the same decision as the same stream read as one   *)
(* chunk.                                                                  *)
(***************************************************************************)
C30_ChunkingIndependent ==
    (~Injecting /\ chunks # <<>>) => Outcome(chunks) = Outcome(<<Stream>>)

(***************************************************************************)
(* Vocabulary of the claim about the two locks                             *)
(***************************************************************************)
LockUsers == {"out", "in", "sig"}

\* thread t is inside lock() of the writer Mutex, of the master Mutex
WaitsForWriter(t) ==
    \/ t = "out" /\ pcOut \in {"pw_lock", "close_w_lock"}
    \/ t = "in" /\ pcIn = "lock"
    \/ t = "sig" /\ pcSig = "lock"

WaitsForMaster(t) ==
    \/ t = "out" /\ pcOut = "close_m_lock"
    \/ t = "sig" /\ pcSig = "winch_lock"

\* thread t is between lock() and the unlock of the master Mutex
InsideMasterLock(t) ==
    \/ t = "out" /\ pcOut = "close_m"
    \/ t = "sig" /\ pcSig = "winch_resize"

\* the step with which the holder of a lock gives it back
WriterRelease == ChildOutWritePayload \/ ChildOutCloseWriter \/ UserInWrite \/ SigWrite
MasterRelease == ChildOutCloseMaster \/ SigResize

(***************************************************************************)
(* C31. No thread holds the writer lock and the master lock at the same    *)
(* time, and none waits for one while it holds the other; a lock that is   *)
(* held is held by a thread that can go on and give it back, so no state   *)
(* has the threads blocked on locks; and under every fair interleaving of  *)
(* the two pumps, the signal thread and the supervisor every thread that   *)
(* waits for a lock eventually gets it.                                    *)
(***************************************************************************)
C31_NoDeadlock ==
    /\ [](\A t \in LockUsers :
            /\ ~(writerLock = t /\ masterLock = t)
            /\ writerLock = t <=> t \in InsideWriterLock
            /\ masterLock = t <=> InsideMasterLock(t)
            /\ (WaitsForWriter(t) \/ WaitsForMaster(t)) => (writerLock # t /\ masterLock # t))
    /\ [](/\ writerLock # "free" => ENABLED WriterRelease
          /\ masterLock # "free" => ENABLED MasterRelease)
    /\ \A t \in LockUsers : []<>~(WaitsForWriter(t) \/ WaitsForMaster(t))

\* the signal thread holds the master lock for a resize while the pump, inside
\* close_pty, holds the writer lock, and the user-in pump waits for that lock
C31_Witness ==
    /\ masterLock = "sig" /\ pcSig = "winch_resize"
    /\ writerLock = "out" /\ pcOut = "close_w"
    /\ pcIn = "lock"

=============================================================================
